---- MODULE Spec2Model ----
(***************************************************************************)
(* Model of reffy's Linear synchronisation (src/src/linear.ts) on top of   *)
(* the references store (src/src/storage.ts).                              *)
(*                                                                         *)
(* Text (names, titles, bodies, tags, filenames) is a sequence of          *)
(* one-character strings, so that trimming, case folding, slugifying and   *)
(* pattern matching are computed the way the code computes them.           *)
(* Timestamps are readings of an integer clock; an absent number           *)
(* (undefined / null in the code) is Undef, an absent text is <<>> or "".  *)
(***************************************************************************)
EXTENDS Integers, Sequences, FiniteSets, TLC

\* ------------------------------------------------------------------ bounds
MaxEnvSteps == 2
StartArtifacts == 2
StartIssues == 2
MaxRuns == 2

\* ------------------------------------------------------- program constants
PushListLimit == 100
PullListLimit == 50
MANIFEST_VERSION == 1
FirstCounter == 2

Undef == -1

\* ------------------------------------------------------------------- text
UpperLetters == <<"A","B","C","D","E","F","G","H","I","J","K","L","M",
                  "N","O","P","Q","R","S","T","U","V","W","X","Y","Z">>
LowerLetters == <<"a","b","c","d","e","f","g","h","i","j","k","l","m",
                  "n","o","p","q","r","s","t","u","v","w","x","y","z">>
Digits == <<"0","1","2","3","4","5","6","7","8","9">>

SeqRange(s) == { s[i] : i \in 1..Len(s) }

\* the sequences over S of length 1 to n
SeqsUpTo(S, n) == UNION { [1..k -> S] : k \in 1..n }

\* String.prototype.toLowerCase on one character
LowerChar(c) ==
    IF \E i \in 1..26 : UpperLetters[i] = c
    THEN LowerLetters[CHOOSE i \in 1..26 : UpperLetters[i] = c]
    ELSE c

toLowerCase(s) == [i \in 1..Len(s) |-> LowerChar(s[i])]

\* the characters String.prototype.trim and the regex class \s remove
IsSpace(c) == c \in {" ", "\t", "\n", "\r"}

\* the regex class \w
IsWord(c) == c \in SeqRange(UpperLetters) \cup SeqRange(LowerLetters)
                  \cup SeqRange(Digits) \cup {"_"}

RECURSIVE trimStart(_)
trimStart(s) ==
    IF s # <<>> /\ IsSpace(Head(s)) THEN trimStart(Tail(s)) ELSE s

RECURSIVE trimEnd(_)
trimEnd(s) ==
    IF s # <<>> /\ IsSpace(s[Len(s)]) THEN trimEnd(SubSeq(s, 1, Len(s) - 1)) ELSE s

trim(s) == trimEnd(trimStart(s))

\* value.replace(/\r\n/g, "\n")
RECURSIVE replaceCrLf(_)
replaceCrLf(s) ==
    IF Len(s) < 2 THEN s
    ELSE IF s[1] = "\r" /\ s[2] = "\n"
         THEN <<"\n">> \o replaceCrLf(SubSeq(s, 3, Len(s)))
         ELSE <<s[1]>> \o replaceCrLf(Tail(s))

\* s.includes(p)
Includes(s, p) ==
    \E i \in 1..(Len(s) - Len(p) + 1) : SubSeq(s, i, i + Len(p) - 1) = p

StartsWith(s, p) == Len(s) >= Len(p) /\ SubSeq(s, 1, Len(p)) = p

StrConflictTag == <<"c","o","n","f","l","i","c","t">>
StrConflictMark == <<"(","c","o","n","f","l","i","c","t",")">>
StrConflictSuffix == <<" ">> \o StrConflictMark
StrUntitled == <<"U","n","t","i","t","l","e","d">>
StrUntitledSlug == <<"u","n","t","i","t","l","e","d">>
StrBinaryPrefix == <<"B","i","n","a","r","y"," ","a","r","t","i","f","a","c","t",":"," ">>
StrExtMd == <<".","m","d">>
StrLinear == <<"l","i","n","e","a","r">>
StrImported == <<"i","m","p","o","r","t","e","d">>

StrLinearSource == "linear"
StrConflictNote == "Local edits detected during pull; conflict copy created."

\* ---------------------------------------------------------------- state
VARIABLES
    clock,        \* the wall clock read by utcNow() / nowIso()
    manifest,     \* .references/manifest.json (storage.ts Manifest)
    files,        \* .references/artifacts: filename -> [content, mtime]
    uuid,         \* how many ids randomUUID() has handed out
    remote,       \* the issues of the Linear workspace, in listing order
    remoteLabels, \* label name -> label id of the team (Undef: no such label)
    labelCache,   \* LinearClient.labelCache
    mappingFile,  \* .references/links/linear.json
    config,       \* LinearClient.config and LINEAR_PULL_CREATE_CONFLICTS
    run,          \* the local variables of the push or pull run in progress
    result,       \* what the last finished run returned
    synced,       \* history: <<issue id, text>> sent to or received from an issue
    envSteps,     \* history: how many edits users made (bounds the model)
    runs,         \* history: how many runs were started (bounds the model)
    lastPush,     \* history: "clean" / "errors" when the last event is a finished push
    pulledLast,   \* history: ids of the artifacts whose file and manifest entry
                  \* were last written by a pull run (no local edit since)
    peer,         \* a second engine process on the same repository, while it
                  \* is not the one taking steps: its run, result and labelCache
    texts,        \* two title/body pairs and the keys the engine computes for them
    cleanup,      \* tools/cleanup-linear-duplicates.ts: its runs and the issues
                  \* it archived in Linear
    agents,       \* AGENTS.md of the repository root and what each init wrote
    doctor,       \* what runDoctor looks at besides the store, and its report
    diagram,      \* a spec document given to diagram render, and what came out
    watcher,      \* a ReferencesWatcher: its fields, its timer and the calls
                  \* of onChange it made
    startup,      \* a ReferencesStore constructed on a repository without
                  \* manifest file, and the first createArtifact on it
    validation    \* a manifest handed to validateManifest, and the outcome

\* what the command line tools and the pure functions work on
toolVars == <<texts, cleanup, agents, doctor, diagram, watcher, startup, validation>>

\* the state outside the sync engine that takes the steps
sideVars == <<peer, toolVars>>

\* the diagram command, the watcher, the store's constructor and the
\* manifest validation
laterToolVars == <<diagram, watcher, startup, validation>>

\* the key functions, the cleanup tool, init and doctor
earlierToolVars == <<texts, cleanup, agents, doctor>>

vars == <<clock, manifest, files, uuid, remote, remoteLabels, labelCache,
          mappingFile, config, run, result, synced, envSteps, runs, lastPush,
          pulledLast, peer, texts, cleanup, agents, doctor,
          diagram, watcher, startup, validation>>

storeVars == <<manifest, files, uuid>>

\* the repository, the workspace and the engines
projectVars == <<clock, manifest, files, uuid, remote, remoteLabels, labelCache,
                 mappingFile, config, run, result, synced, envSteps, runs, lastPush,
                 pulledLast, peer>>

\* ------------------------------------------------------ storage.ts: store
\* The store operations are functions from the store's state
\* st = [manifest, files, uuid] and the clock reading to the new state.

Store == [manifest |-> manifest, files |-> files, uuid |-> uuid]

utcNow == clock

emptyManifest(now) ==
    [version |-> MANIFEST_VERSION, created_at |-> now, updated_at |-> now,
     artifacts |-> <<>>, conflicts |-> <<>>]

FileExists(fs, filename) == filename \in DOMAIN fs

WriteFile(fs, filename, content, now) ==
    [f \in DOMAIN fs \cup {filename} |->
        IF f = filename THEN [content |-> content, mtime |-> now] ELSE fs[f]]

RemoveFile(fs, filename) == [f \in DOMAIN fs \ {filename} |-> fs[f]]

listArtifacts(st) == st.manifest.artifacts

ArtifactIndex(arts, artifactId) ==
    IF \E i \in 1..Len(arts) : arts[i].id = artifactId
    THEN CHOOSE i \in 1..Len(arts) :
            /\ arts[i].id = artifactId
            /\ \A j \in 1..(i - 1) : arts[j].id # artifactId
    ELSE 0

HasArtifact(st, artifactId) == ArtifactIndex(st.manifest.artifacts, artifactId) # 0

getArtifact(st, artifactId) ==
    st.manifest.artifacts[ArtifactIndex(st.manifest.artifacts, artifactId)]

getArtifactPath(artifact) == artifact.filename

RECURSIVE KeepSlugChars(_)
KeepSlugChars(s) ==
    IF s = <<>> THEN <<>>
    ELSE IF IsWord(Head(s)) \/ Head(s) \in {"-", " "}
         THEN <<Head(s)>> \o KeepSlugChars(Tail(s))
         ELSE KeepSlugChars(Tail(s))

\* replace(/\s+/g, "-")
RECURSIVE DashSpaces(_)
DashSpaces(s) ==
    IF s = <<>> THEN <<>>
    ELSE IF IsSpace(Head(s))
         THEN <<"-">> \o DashSpaces(trimStart(s))
         ELSE <<Head(s)>> \o DashSpaces(Tail(s))

slugify(name) ==
    LET cleaned == toLowerCase(DashSpaces(trim(KeepSlugChars(name))))
    IN  IF cleaned = <<>> THEN StrUntitledSlug ELSE cleaned

RECURSIVE DecimalString(_)
DecimalString(n) ==
    IF n < 10 THEN <<Digits[n + 1]>>
    ELSE DecimalString(n \div 10) \o <<Digits[(n % 10) + 1]>>

RECURSIVE NextFreeName(_, _, _, _)
NextFreeName(fs, base, ext, counter) ==
    LET candidate == base \o <<"-">> \o DecimalString(counter) \o ext
    IN  IF FileExists(fs, candidate)
        THEN NextFreeName(fs, base, ext, counter + 1)
        ELSE candidate

uniqueFilename(fs, base, ext) ==
    IF FileExists(fs, base \o ext)
    THEN NextFreeName(fs, base, ext, FirstCounter)
    ELSE base \o ext

\* input = [name, hasContent, content, kind, mime_type, tags]
createArtifact(st, input, now) ==
    LET id == st.uuid + 1
        filename == uniqueFilename(st.files, slugify(input.name), StrExtMd)
        fs1 == IF input.hasContent
               THEN WriteFile(st.files, filename, input.content, now)
               ELSE st.files
        sizeBytes == IF FileExists(fs1, filename) THEN Len(fs1[filename].content) ELSE 0
        artifact == [id |-> id, name |-> input.name, filename |-> filename,
                     kind |-> input.kind, mime_type |-> input.mime_type,
                     size_bytes |-> sizeBytes, tags |-> input.tags,
                     created_at |-> now, updated_at |-> now]
    IN  [st |-> [manifest |-> [st.manifest EXCEPT
                                  !.updated_at = now,
                                  !.artifacts = Append(@, artifact)],
                 files |-> fs1,
                 uuid |-> id],
         artifact |-> artifact]

\* input = [hasName, name, hasContent, content]; the caller has checked that
\* the artifact is in the manifest (otherwise the code returns null)
updateArtifact(st, artifactId, input, now) ==
    LET index == ArtifactIndex(st.manifest.artifacts, artifactId)
        item0 == st.manifest.artifacts[index]
        item1 == IF input.hasName THEN [item0 EXCEPT !.name = input.name] ELSE item0
        fs1 == IF input.hasContent
               THEN WriteFile(st.files, getArtifactPath(item1), input.content, now)
               ELSE st.files
        item2 == IF input.hasContent
                 THEN [item1 EXCEPT !.size_bytes = Len(input.content)]
                 ELSE item1
        item == [item2 EXCEPT !.updated_at = now]
    IN  [manifest |-> [st.manifest EXCEPT !.updated_at = now,
                                          !.artifacts[index] = item],
         files |-> fs1,
         uuid |-> st.uuid]

RemoveAt(s, i) == SubSeq(s, 1, i - 1) \o SubSeq(s, i + 1, Len(s))

\* a deleteArtifact that also drops the conflict records of the artifact
deleteArtifact_PurgeConflicts(st, artifactId, now) ==
    LET index == ArtifactIndex(st.manifest.artifacts, artifactId)
        removed == st.manifest.artifacts[index]
    IN  [manifest |-> [st.manifest EXCEPT
                          !.updated_at = now,
                          !.artifacts = RemoveAt(@, index),
                          !.conflicts = SelectSeq(@, LAMBDA c : c.artifact_id # artifactId)],
         files |-> RemoveFile(st.files, getArtifactPath(removed)),
         uuid |-> st.uuid]

deleteArtifact(st, artifactId, now) ==
    LET index == ArtifactIndex(st.manifest.artifacts, artifactId)
        removed == st.manifest.artifacts[index]
    IN  [manifest |-> [st.manifest EXCEPT !.updated_at = now,
                                          !.artifacts = RemoveAt(@, index)],
         files |-> RemoveFile(st.files, getArtifactPath(removed)),
         uuid |-> st.uuid]

recordConflict(st, input, now) ==
    [st EXCEPT !.manifest.conflicts =
                   Append(@, [artifact_id |-> input.artifact_id,
                              source |-> input.source,
                              note |-> input.note,
                              conflict_artifact_id |-> input.conflict_artifact_id,
                              created_at |-> now]),
               !.manifest.updated_at = now]

\* createConflictCopy returns null and changes nothing when the artifact is
\* not in the manifest or its file cannot be read
CanCopy(st, artifactId) ==
    /\ HasArtifact(st, artifactId)
    /\ FileExists(st.files, getArtifactPath(getArtifact(st, artifactId)))

\* a createConflictCopy that copies the artifact but forgets recordConflict
createConflictCopy_NoRecord(st, input, now) ==
    IF ~CanCopy(st, input.artifact_id) THEN st
    ELSE LET original == getArtifact(st, input.artifact_id)
             content == st.files[getArtifactPath(original)].content
         IN  createArtifact(st,
                 [name |-> original.name \o StrConflictSuffix,
                  hasContent |-> TRUE, content |-> content,
                  kind |-> original.kind, mime_type |-> original.mime_type,
                  tags |-> Append(original.tags, StrConflictTag)], now).st

createConflictCopy(st, input, now) ==
    IF ~CanCopy(st, input.artifact_id) THEN st
    ELSE LET original == getArtifact(st, input.artifact_id)
             content == st.files[getArtifactPath(original)].content
             made == createArtifact(st,
                        [name |-> original.name \o StrConflictSuffix,
                         hasContent |-> TRUE, content |-> content,
                         kind |-> original.kind, mime_type |-> original.mime_type,
                         tags |-> Append(original.tags, StrConflictTag)], now)
         IN  recordConflict(made.st,
                 [artifact_id |-> input.artifact_id, source |-> input.source,
                  note |-> input.note, conflict_artifact_id |-> made.artifact.id], now)


\* ------------------------------------------------ storage.ts: reindex
\* A directory entry that is not a regular file carries the field dir.
isFile(fs, name) == "dir" \notin DOMAIN fs[name]

\* path.extname: the name from its last dot on, unless it starts with it
LastDot(name) ==
    IF \E i \in 2..Len(name) : name[i] = "."
    THEN CHOOSE i \in 2..Len(name) :
            name[i] = "." /\ \A j \in (i + 1)..Len(name) : name[j] # "."
    ELSE 0

extname(name) == IF LastDot(name) = 0 THEN <<>> ELSE SubSeq(name, LastDot(name), Len(name))

\* inferKind, lines 174-192
inferKind(filename) ==
    LET ext == toLowerCase(extname(filename))
    IN  IF ext = <<".","e","x","c","a","l","i","d","r","a","w">>
        THEN [kind |-> "diagram", mime_type |-> "application/json"]
        ELSE IF ext = <<".","p","n","g">> THEN [kind |-> "image", mime_type |-> "image/png"]
        ELSE IF ext \in { <<".","j","p","g">>, <<".","j","p","e","g">> }
        THEN [kind |-> "image", mime_type |-> "image/jpeg"]
        ELSE IF ext \in { <<".","h","t","m","l">>, <<".","h","t","m">> }
        THEN [kind |-> "html", mime_type |-> "text/html"]
        ELSE IF ext = <<".","p","d","f">> THEN [kind |-> "pdf", mime_type |-> "application/pdf"]
        ELSE IF ext = <<".","d","o","c">> THEN [kind |-> "doc", mime_type |-> "application/msword"]
        ELSE IF ext = <<".","d","o","c","x">>
        THEN [kind |-> "doc",
              mime_type |-> "application/vnd.openxmlformats-officedocument.wordprocessingml.document"]
        ELSE IF ext = <<".","j","s","o","n">> THEN [kind |-> "json", mime_type |-> "application/json"]
        ELSE IF ext = StrExtMd THEN [kind |-> "note", mime_type |-> "text/markdown"]
        ELSE IF ext = <<".","t","x","t">> THEN [kind |-> "file", mime_type |-> "text/plain"]
        ELSE [kind |-> "file", mime_type |-> "application/octet-stream"]

\* line 208: basename without extension, dashes to spaces, trimmed
reindexName(filename) ==
    LET base == IF LastDot(filename) = 0 THEN filename
                ELSE SubSeq(filename, 1, LastDot(filename) - 1)
        spaced == [i \in 1..Len(base) |-> IF base[i] = "-" THEN " " ELSE base[i]]
    IN  IF trim(spaced) = <<>> THEN StrUntitledSlug ELSE trim(spaced)

\* the loop of lines 199-219 over the directory entries in readdir order
RECURSIVE reindexEntries(_, _, _, _)
reindexEntries(st, known, entries, now) ==
    IF entries = <<>> THEN st
    ELSE LET name == Head(entries)
         IN  IF ~isFile(st.files, name) \/ name \in known
             THEN reindexEntries(st, known, Tail(entries), now)
             ELSE reindexEntries(
                     [st EXCEPT
                         !.uuid = @ + 1,
                         !.manifest.artifacts = Append(@,
                             [id |-> st.uuid + 1, name |-> reindexName(name),
                              filename |-> name,
                              kind |-> inferKind(name).kind,
                              mime_type |-> inferKind(name).mime_type,
                              size_bytes |-> Len(st.files[name].content),
                              tags |-> <<>>,
                              created_at |-> now, updated_at |-> now])],
                     known, Tail(entries), now)

\* a reindex that rebuilds the list from the directory alone
reindexArtifacts_Rebuild(st, entries, now) ==
    LET done == reindexEntries([st EXCEPT !.manifest.artifacts = <<>>], {}, entries, now)
    IN  [done EXCEPT !.manifest.updated_at = now]

\* reindexArtifacts, lines 194-228
reindexArtifacts(st, entries, now) ==
    LET known == { st.manifest.artifacts[k].filename : k \in 1..Len(st.manifest.artifacts) }
        done == reindexEntries(st, known, entries, now)
    IN  IF Len(done.manifest.artifacts) > Len(st.manifest.artifacts)
        THEN [done EXCEPT !.manifest.updated_at = now]
        ELSE st


\* ------------------------------------------------- linear.ts: the remote
\* The workspace has one team; an issue's short code (identifier) is a
\* number derived from its id.
TeamId == "team-1"
TeamName == "Engineering"
Team == [id |-> TeamId, name |-> TeamName]
NoProject == [id |-> "", name |-> ""]

IdentifierOf(issueId) == 100 + issueId

IssueIndex(issues, issueId) ==
    IF \E i \in 1..Len(issues) : issues[i].id = issueId
    THEN CHOOSE i \in 1..Len(issues) : issues[i].id = issueId
    ELSE 0

Min(a, b) == IF a <= b THEN a ELSE b

\* LinearClient.listIssues(first)
listIssues(issues, first) == SubSeq(issues, 1, Min(first, Len(issues)))

\* LinearClient.createIssue: the workspace after the call.  updated_at is
\* Linear's own updatedAt stamp of the issue, which the client never reads.
createIssue(issues, input, now) ==
    Append(issues,
        [id |-> Len(issues) + 1,
         identifier |-> IdentifierOf(Len(issues) + 1),
         title |-> input.title,
         description |-> input.description,
         team |-> Team,
         project |-> NoProject,
         labels |-> input.labels,
         attachments |-> 0,
         updated_at |-> now])

\* LinearClient.updateIssue
updateIssue(issues, input, now) ==
    [issues EXCEPT ![IssueIndex(issues, input.issue_id)] =
        [@ EXCEPT !.title = input.title, !.description = input.description,
                  !.updated_at = now]]

RECURSIVE SumAttachments(_)
SumAttachments(issues) ==
    IF issues = <<>> THEN 0
    ELSE Head(issues).attachments + SumAttachments(Tail(issues))

\* LinearClient.createAttachment
createAttachment(issues, issueId) ==
    [issues EXCEPT ![IssueIndex(issues, issueId)].attachments = @ + 1]

\* a credential check that lets every configuration pass
isConfigured_Always(cfg) == TRUE

\* LinearClient.isConfigured
isConfigured(cfg) == cfg.api_key # "" \/ cfg.oauth_token # ""

\* LinearClient.getLabelId: the cache after a lookup that completed
LabelKey(teamId, name) == <<teamId, name>>

LabelValue(labels, name) == IF name \in DOMAIN labels THEN labels[name] ELSE Undef

getLabelId(cache, labels, teamId, name) ==
    IF LabelKey(teamId, name) \in DOMAIN cache
    THEN cache[LabelKey(teamId, name)]
    ELSE LabelValue(labels, name)

\* a cache that keeps only the labels that were found
CacheLabel_FoundOnly(cache, labels, teamId, name) ==
    IF LabelKey(teamId, name) \in DOMAIN cache \/ LabelValue(labels, name) = Undef
    THEN cache
    ELSE [k \in DOMAIN cache \cup {LabelKey(teamId, name)} |->
            IF k = LabelKey(teamId, name) THEN LabelValue(labels, name) ELSE cache[k]]

\* lines 142-144: labelCache.set(key, value), value null when no node matches
CacheLabel(cache, labels, teamId, name) ==
    IF LabelKey(teamId, name) \in DOMAIN cache THEN cache
    ELSE [k \in DOMAIN cache \cup {LabelKey(teamId, name)} |->
            IF k = LabelKey(teamId, name) THEN LabelValue(labels, name) ELSE cache[k]]

\* ------------------------------------------- linear.ts: mapping and text
EmptyMapping == <<>>

\* a readMapping that finds no file
readMapping_AlwaysEmpty(file) == EmptyMapping

\* a readMapping that takes whatever entries the text of the file holds
readMapping_Lenient(file) == file.artifacts

\* readMapping, lines 310-321.  The states of the file: "missing" (readFile
\* throws), "invalid" (JSON.parse throws), "no_artifacts" (an object without
\* the artifacts key), "ok".  Only "ok" yields the entries of the file.
readMapping(file) == IF file.state = "ok" THEN file.artifacts ELSE EmptyMapping

\* a writeMapping that keeps the entries which the file on disk holds for
\* other artifacts
writeMapping_Merged(mapping) ==
    [state |-> "ok",
     artifacts |-> mapping \o SelectSeq(readMapping(mappingFile),
                                  LAMBDA e : \A k \in 1..Len(mapping) :
                                                mapping[k].artifact_id # e.artifact_id)]

\* writeMapping
writeMapping(mapping) == [state |-> "ok", artifacts |-> mapping]

MapIndex(mapping, artifactId) ==
    IF \E i \in 1..Len(mapping) : mapping[i].artifact_id = artifactId
    THEN CHOOSE i \in 1..Len(mapping) : mapping[i].artifact_id = artifactId
    ELSE 0

HasEntry(mapping, artifactId) == MapIndex(mapping, artifactId) # 0

EntryOf(mapping, artifactId) == mapping[MapIndex(mapping, artifactId)]

\* entry?.issue_id
HasIssue(mapping, artifactId) ==
    HasEntry(mapping, artifactId) /\ EntryOf(mapping, artifactId).issue_id # Undef

\* mapping.artifacts[artifactId] = entry
SetEntry(mapping, entry) ==
    IF HasEntry(mapping, entry.artifact_id)
    THEN [mapping EXCEPT ![MapIndex(mapping, entry.artifact_id)] = entry]
    ELSE Append(mapping, entry)

BlankEntry(artifactId) ==
    [artifact_id |-> artifactId, issue_id |-> Undef, issue_identifier |-> Undef,
     issue_team_name |-> "", issue_team_id |-> "",
     issue_project_name |-> "", issue_project_id |-> "",
     attachment_id |-> Undef, attachment_url |-> Undef,
     attachment_mtime |-> Undef, attachment_size |-> Undef,
     last_pushed_at |-> Undef, last_pulled_at |-> Undef]

\* a claimed-id set that starts empty instead of from the mapping
MappedIssueIds_None(mapping) == {}

MappedIssueIds(mapping) ==
    { mapping[i].issue_id : i \in 1..Len(mapping) } \ {Undef}

normalizeText(value) == replaceCrLf(trim(value))

fingerprint(title, description) ==
    toLowerCase(normalizeText(title)) \o <<":", ":">> \o normalizeText(description)

titleKey(value) == toLowerCase(normalizeText(value))

hasLabel(issue, labelName) == labelName = "" \/ labelName \in issue.labels

mappingEntryFromIssue(artifactId, issue, timestampKey, now) ==
    LET entry == [BlankEntry(artifactId) EXCEPT
                     !.issue_id = issue.id,
                     !.issue_identifier = issue.identifier,
                     !.issue_team_name = issue.team.name,
                     !.issue_team_id = issue.team.id,
                     !.issue_project_name = issue.project.name,
                     !.issue_project_id = issue.project.id]
    IN  IF timestampKey = "last_pulled_at"
        THEN [entry EXCEPT !.last_pulled_at = now]
        ELSE [entry EXCEPT !.last_pushed_at = now]

\* a variant of isConflictArtifact that compares case-sensitively
isConflictArtifact_CaseSensitive(artifact) ==
    \/ \E i \in 1..Len(artifact.tags) : artifact.tags[i] = StrConflictTag
    \/ Includes(artifact.name, StrConflictMark)

isConflictArtifact(artifact) ==
    \/ \E i \in 1..Len(artifact.tags) : toLowerCase(artifact.tags[i]) = StrConflictTag
    \/ Includes(toLowerCase(artifact.name), StrConflictMark)

\* mime_type.startsWith("text/") for the content types of the model
IsTextMime(mime) == mime \in {"text/markdown", "text/html", "text/plain"}

artifactDescription(fs, artifact) ==
    IF ~IsTextMime(artifact.mime_type)
    THEN StrBinaryPrefix \o getArtifactPath(artifact)
    ELSE IF FileExists(fs, getArtifactPath(artifact))
         THEN fs[getArtifactPath(artifact)].content
         ELSE <<>>

\* artifact.name || "Untitled"
pushTitle(artifact) == IF artifact.name = <<>> THEN StrUntitled ELSE artifact.name

\* parseTs / maxTs: an absent timestamp is Undef, below every clock reading
maxTs(a, b) == IF a = Undef THEN b ELSE IF b = Undef THEN a ELSE IF a > b THEN a ELSE b

\* the issues push may reuse, in listing order (remoteByFingerprint and
\* remoteByTitle hold exactly these, grouped by key in this order)
EligibleIssues(remoteIssues, pushLabel) ==
    SelectSeq(remoteIssues, LAMBDA issue : issue.id # Undef /\ hasLabel(issue, pushLabel))

\* (map.get(key) ?? []).find(issue => !used.has(issue.id)): 0 when none
FirstUnclaimed(issues, used, Matches(_)) ==
    IF \E i \in 1..Len(issues) : Matches(issues[i]) /\ issues[i].id \notin used
    THEN CHOOSE i \in 1..Len(issues) :
            /\ Matches(issues[i]) /\ issues[i].id \notin used
            /\ \A j \in 1..(i - 1) : ~(Matches(issues[j]) /\ issues[j].id \notin used)
    ELSE 0

candidateByFingerprint(issues, used, title, description) ==
    FirstUnclaimed(issues, used,
        LAMBDA issue : fingerprint(issue.title, issue.description)
                          = fingerprint(title, description))

candidateByTitle(issues, used, title) ==
    FirstUnclaimed(issues, used, LAMBDA issue : titleKey(issue.title) = titleKey(title))

\* a variant of pushCandidate that matches by fingerprint only
pushCandidate_FingerprintOnly(issues, used, title, description) ==
    candidateByFingerprint(issues, used, title, description)

\* a variant of pushCandidate that prefers the title match
pushCandidate_TitleFirst(issues, used, title, description) ==
    IF candidateByTitle(issues, used, title) # 0
    THEN candidateByTitle(issues, used, title)
    ELSE candidateByFingerprint(issues, used, title, description)

\* candidateByFingerprint ?? candidateByTitle
pushCandidate(issues, used, title, description) ==
    IF candidateByFingerprint(issues, used, title, description) # 0
    THEN candidateByFingerprint(issues, used, title, description)
    ELSE candidateByTitle(issues, used, title)


\* ------------------------------------------------------- linear.ts: runs
\* The local variables of LinearSync.push / LinearSync.pull.  log and calls
\* are history: what each loop iteration did and which remote calls
\* completed; listFailed tells that the listing call threw (the code swallows it);
\* leftBehind are the creations of the cancelled push run directly before.
IdleRun ==
    [kind |-> "idle", pc |-> "idle",
     mapping |-> EmptyMapping, atStart |-> [state |-> "missing", artifacts |-> EmptyMapping],
     reads |-> 0, writes |-> 0,
     teamId |-> "", labelIds |-> Undef,
     items |-> <<>>, i |-> 1,
     listing |-> <<>>, issues |-> <<>>, j |-> 1,
     usedIssueIds |-> {}, mappedArtifactIds |-> {}, localIndex |-> <<>>,
     created |-> 0, updated |-> 0, reused |-> 0, skippedConflict |-> 0, skipped |-> 0,
     reconciled |-> 0, skippedExistingTitle |-> 0,
     createdIssueIds |-> <<>>, createdIssueIdentifiers |-> <<>>,
     updatedIssueIdentifiers |-> <<>>, reusedIssueIdentifiers |-> <<>>,
     reconciledIssueIdentifiers |-> <<>>, conflictArtifactIds |-> <<>>,
     errors |-> <<>>, warnings |-> <<>>,
     log |-> <<>>, calls |-> <<>>, listFailed |-> FALSE,
     afterPush |-> "none", leftBehind |-> <<>>]

NoResult == [kind |-> "none", status |-> "none", message |-> "", out |-> IdleRun]

Idle == run.kind = "idle"

LogItem(artifactId, action) ==
    [artifact_id |-> artifactId, action |-> action, issue_id |-> Undef,
     title |-> <<>>, description |-> <<>>, match |-> "none", failed |-> FALSE,
     uploaded |-> FALSE, conflict |-> FALSE, copy_id |-> Undef,
     hadFile |-> FALSE, before |-> <<>>, mime_type |-> ""]

Call(op, artifactId, issueId) == [op |-> op, artifact_id |-> artifactId, issue_id |-> issueId]

\* a second process that has not run anything yet
IdlePeer == [run |-> IdleRun, result |-> NoResult, labelCache |-> <<>>]

\* push(), lines 378-433: the checks, readMapping, listArtifacts, the label
\* lookup and the remote listing.  teamOk / labelOk / listOk: whether the
\* remote call (getFirstTeamId, getLabelId, listIssues) succeeds.
PushStartRun(teamId, labelId, listing) ==
    [IdleRun EXCEPT
        !.kind = "push", !.pc = "items",
        !.mapping = readMapping(mappingFile),
        !.atStart = mappingFile,
        !.reads = 1,
        !.teamId = teamId,
        !.items = listArtifacts(Store),
        !.labelIds = labelId,
        !.warnings = IF config.push_label # "" /\ labelId = Undef
                     THEN <<"push_label_not_found">> ELSE <<>>,
        !.listing = listing,
        !.issues = EligibleIssues(listing, config.push_label),
        !.usedIssueIds = MappedIssueIds(readMapping(mappingFile)),
        !.calls = (IF config.team_id = "" THEN <<Call("getFirstTeamId", Undef, Undef)>> ELSE <<>>)
                  \o (IF config.push_label # ""
                         /\ LabelKey(teamId, config.push_label) \notin DOMAIN labelCache
                      THEN <<Call("getLabelId", Undef, Undef)>> ELSE <<>>),
        !.afterPush = lastPush,
        !.leftBehind = IF result.kind = "push" /\ result.status = "cancelled"
                       THEN SelectSeq(result.out.log,
                                LAMBDA item : item.action = "create" /\ item.issue_id # Undef)
                       ELSE <<>>]

PushStart ==
    /\ UNCHANGED <<sideVars, pulledLast>>
    /\ Idle
    /\ runs < MaxRuns
    /\ runs' = runs + 1
    /\ lastPush' = "none"
    /\ clock' = clock + 1
    /\ UNCHANGED <<manifest, files, uuid, remote, remoteLabels,
                   mappingFile, config, synced, envSteps>>
    /\ IF ~isConfigured(config)
       THEN /\ result' = [kind |-> "push", status |-> "error",
                          message |-> "Linear not configured", out |-> IdleRun]
            /\ UNCHANGED <<run, labelCache>>
       ELSE \E teamOk, labelOk, listOk \in BOOLEAN :
            LET needTeam == config.team_id = ""
                needLabel == config.push_label # ""
                                /\ LabelKey(TeamId, config.push_label) \notin DOMAIN labelCache
                labelId == IF config.push_label = "" THEN Undef
                           ELSE getLabelId(labelCache, remoteLabels, TeamId, config.push_label)
            IN  /\ needTeam \/ teamOk
                /\ needLabel \/ labelOk
                /\ IF (needTeam /\ ~teamOk) \/ (needLabel /\ ~labelOk)
                   THEN \* the remote call throws: push() rejects
                        /\ listOk
                        /\ result' = [kind |-> "push", status |-> "exception",
                                      message |-> "", out |-> IdleRun]
                        /\ UNCHANGED <<run, labelCache>>
                   ELSE /\ labelCache' = IF config.push_label = "" THEN labelCache
                                         ELSE CacheLabel(labelCache, remoteLabels,
                                                         TeamId, config.push_label)
                        /\ run' = [PushStartRun(TeamId, labelId,
                                         IF listOk THEN listIssues(remote, PushListLimit)
                                         ELSE <<>>)
                                   EXCEPT !.listFailed = ~listOk,
                                          !.calls = IF listOk
                                                    THEN Append(@, Call("listIssues", Undef, Undef))
                                                    ELSE @]
                        /\ result' = NoResult


\* a catch block that counts the item as skipped and records no error
pushFail_Silent(r, artifactId) == [r EXCEPT !.skipped = @ + 1]

\* errors.push(`${artifactId}: ${String(error)}`); skipped += 1
pushFail(r, artifactId) ==
    [r EXCEPT !.errors = Append(@, artifactId), !.skipped = @ + 1]

\* lines 447-456: the artifact has an entry with an issue id
pushUpdate(r, rem, artifact, title, description, now) ==
    LET entry == EntryOf(r.mapping, artifact.id)
        updatedIssue == rem[IssueIndex(rem, entry.issue_id)]
    IN  [run |-> [r EXCEPT
                    !.updated = @ + 1,
                    !.updatedIssueIdentifiers = Append(@, updatedIssue.identifier),
                    !.mapping = SetEntry(@, [entry EXCEPT
                                    !.issue_identifier = updatedIssue.identifier,
                                    !.issue_team_id = r.teamId]),
                    !.calls = Append(@, Call("updateIssue", artifact.id, entry.issue_id))],
         remote |-> updateIssue(rem, [issue_id |-> entry.issue_id, title |-> title,
                                      description |-> description], now),
         sent |-> {<<entry.issue_id, description>>}]

\* lines 468-472: an unclaimed issue matches
pushReuse(r, rem, artifact, candidate, now) ==
    [run |-> [r EXCEPT
                !.mapping = SetEntry(@, mappingEntryFromIssue(artifact.id, candidate,
                                                              "last_pushed_at", now)),
                !.usedIssueIds = @ \cup {candidate.id},
                !.reused = @ + 1,
                !.reusedIssueIdentifiers =
                    IF candidate.identifier # Undef THEN Append(@, candidate.identifier) ELSE @],
     remote |-> rem,
     sent |-> {}]

\* a create branch that sends the configured label whether it resolved or not
pushCreate_AlwaysLabelled(r, rem, artifact, title, description, now) ==
    LET createdId == Len(rem) + 1
    IN  [run |-> [r EXCEPT
                    !.mapping = SetEntry(@, [BlankEntry(artifact.id) EXCEPT
                                    !.issue_id = createdId,
                                    !.issue_identifier = IdentifierOf(createdId)]),
                    !.usedIssueIds = @ \cup {createdId},
                    !.created = @ + 1,
                    !.createdIssueIds = Append(@, createdId),
                    !.createdIssueIdentifiers = Append(@, IdentifierOf(createdId)),
                    !.calls = Append(@, Call("createIssue", artifact.id, createdId))],
         remote |-> createIssue(rem, [title |-> title, description |-> description,
                                      labels |-> {config.push_label}], now),
         sent |-> {<<createdId, description>>}]

\* lines 473-489: no entry and no issue matches, a new issue is created
pushCreate(r, rem, artifact, title, description, now) ==
    LET createdId == Len(rem) + 1
    IN  [run |-> [r EXCEPT
                    !.mapping = SetEntry(@, [BlankEntry(artifact.id) EXCEPT
                                    !.issue_id = createdId,
                                    !.issue_identifier = IdentifierOf(createdId)]),
                    !.usedIssueIds = @ \cup {createdId},
                    !.created = @ + 1,
                    !.createdIssueIds = Append(@, createdId),
                    !.createdIssueIdentifiers = Append(@, IdentifierOf(createdId)),
                    !.calls = Append(@, Call("createIssue", artifact.id, createdId))],
         remote |-> createIssue(rem, [title |-> title, description |-> description,
                                      labels |-> IF r.labelIds = Undef THEN {}
                                                 ELSE {config.push_label}], now),
         sent |-> {<<createdId, description>>}]

\* a branch choice that looks for a matching issue before it looks at the entry
pushPath_MatchFirst(r, artifact, title, description) ==
    IF pushCandidate(r.issues, r.usedIssueIds, title, description) # 0 THEN "reuse"
    ELSE IF HasIssue(r.mapping, artifact.id) THEN "update"
    ELSE "create"

\* which of the three branches lines 447-490 take for the artifact
pushPath(r, artifact, title, description) ==
    IF HasIssue(r.mapping, artifact.id) THEN "update"
    ELSE IF pushCandidate(r.issues, r.usedIssueIds, title, description) # 0 THEN "reuse"
    ELSE "create"

pushMatch(r, title, description) ==
    IF candidateByFingerprint(r.issues, r.usedIssueIds, title, description) # 0
    THEN "fingerprint"
    ELSE IF candidateByTitle(r.issues, r.usedIssueIds, title) # 0 THEN "title"
    ELSE "none"

pushAssociate(r, rem, artifact, title, description, now) ==
    LET path == pushPath(r, artifact, title, description)
    IN  IF path = "update" THEN pushUpdate(r, rem, artifact, title, description, now)
        ELSE IF path = "reuse"
             THEN pushReuse(r, rem, artifact,
                      r.issues[pushCandidate(r.issues, r.usedIssueIds, title, description)],
                      now)
             ELSE pushCreate(r, rem, artifact, title, description, now)

\* an upload test that does not look at the recorded signature
needsUpload_Always(fs, artifact, current) ==
    /\ FileExists(fs, getArtifactPath(artifact))
    /\ artifact.mime_type # "text/markdown"

\* line 497-498: the file exists, is not markdown and its signature differs
\* from the one recorded at the last upload
needsUpload(fs, artifact, current) ==
    /\ FileExists(fs, getArtifactPath(artifact))
    /\ artifact.mime_type # "text/markdown"
    /\ \/ current.attachment_mtime # fs[getArtifactPath(artifact)].mtime
       \/ current.attachment_size # Len(fs[getArtifactPath(artifact)].content)

\* lines 499-514: fileUpload, PUT and createAttachment all succeeded
pushUpload(r, rem, fs, artifact) ==
    LET current == EntryOf(r.mapping, artifact.id)
        attachmentId == SumAttachments(rem) + 1
    IN  [run |-> [r EXCEPT
                    !.mapping = SetEntry(@, [current EXCEPT
                        !.attachment_id = attachmentId,
                        !.attachment_url = attachmentId,
                        !.attachment_mtime = fs[getArtifactPath(artifact)].mtime,
                        !.attachment_size = Len(fs[getArtifactPath(artifact)].content)]),
                    !.calls = Append(@, Call("upload", artifact.id, current.issue_id))],
         remote |-> createAttachment(rem, current.issue_id)]

\* line 518
pushStamp(r, artifactId, now) ==
    [r EXCEPT !.mapping = SetEntry(@, [EntryOf(@, artifactId) EXCEPT !.last_pushed_at = now])]

\* One iteration of the loop of lines 435-523.  fail says which remote call
\* of the iteration throws: "assoc" the update or create call, "upload" one
\* of fileUpload / PUT / createAttachment, "none" no call.
PushItem ==
    /\ UNCHANGED <<sideVars, pulledLast>>
    /\ run.kind = "push" /\ run.pc = "items" /\ run.i <= Len(run.items)
    /\ UNCHANGED <<clock, manifest, files, uuid, remoteLabels, labelCache,
                   mappingFile, config, result, envSteps, runs, lastPush>>
    /\ LET artifact == run.items[run.i]
           title == pushTitle(artifact)
           description == artifactDescription(files, artifact)
           path == pushPath(run, artifact, title, description)
           item == [LogItem(artifact.id, path) EXCEPT
                       !.title = title, !.description = description,
                       !.match = IF path = "reuse" THEN pushMatch(run, title, description)
                                 ELSE "none",
                       !.hadFile = FileExists(files, getArtifactPath(artifact)),
                       !.mime_type = artifact.mime_type]
       IN  IF isConflictArtifact(artifact)
           THEN /\ run' = [run EXCEPT !.skippedConflict = @ + 1, !.i = @ + 1,
                              !.log = Append(@, LogItem(artifact.id, "skipped_conflict"))]
                /\ UNCHANGED <<remote, synced>>
           ELSE \E fail \in {"none", "assoc", "upload"} :
                LET canAssoc == path = "update" =>
                                   IssueIndex(remote, EntryOf(run.mapping, artifact.id).issue_id) # 0
                    a == pushAssociate(run, remote, artifact, title, description, utcNow)
                    current == EntryOf(a.run.mapping, artifact.id)
                    upload == needsUpload(files, artifact, current)
                    u == IF upload THEN pushUpload(a.run, a.remote, files, artifact)
                         ELSE [run |-> a.run, remote |-> a.remote]
                IN  /\ fail = "assoc" => path # "reuse"
                    /\ fail # "assoc" => canAssoc
                    /\ fail = "upload" => upload
                    /\ IF fail = "assoc"
                       THEN /\ run' = [pushFail(run, artifact.id) EXCEPT !.i = @ + 1,
                                          !.log = Append(@, [item EXCEPT !.failed = TRUE])]
                            /\ UNCHANGED <<remote, synced>>
                       ELSE IF fail = "upload"
                       THEN /\ run' = [pushFail(a.run, artifact.id) EXCEPT !.i = @ + 1,
                                          !.log = Append(@, [item EXCEPT !.failed = TRUE,
                                                                !.issue_id = current.issue_id])]
                            /\ remote' = a.remote
                            /\ synced' = synced \cup a.sent
                       ELSE /\ run' = [pushStamp(u.run, artifact.id, utcNow) EXCEPT !.i = @ + 1,
                                          !.log = Append(@, [item EXCEPT !.uploaded = upload,
                                                                !.issue_id = current.issue_id])]
                            /\ remote' = u.remote
                            /\ synced' = synced \cup a.sent \cup
                                  (IF upload
                                   THEN {<<current.issue_id,
                                           files[getArtifactPath(artifact)].content>>}
                                   ELSE {})

\* lines 525-540: writeMapping and the returned record
PushFinish ==
    /\ UNCHANGED <<sideVars, pulledLast>>
    /\ run.kind = "push" /\ run.pc = "items" /\ run.i > Len(run.items)
    /\ mappingFile' = writeMapping(run.mapping)
    /\ result' = [kind |-> "push", status |-> "ok", message |-> "",
                  out |-> [run EXCEPT !.writes = @ + 1]]
    /\ run' = IdleRun
    /\ lastPush' = IF run.errors = <<>> THEN "clean" ELSE "errors"
    /\ UNCHANGED <<clock, manifest, files, uuid, remote, remoteLabels, labelCache,
                   config, synced, envSteps, runs>>

\* a stop that flushes the in-memory mapping on the way out
Cancel_Flush ==
    /\ UNCHANGED <<sideVars, pulledLast>>
    /\ ~Idle
    /\ mappingFile' = writeMapping(run.mapping)
    /\ result' = [kind |-> run.kind, status |-> "cancelled", message |-> "", out |-> run]
    /\ run' = IdleRun
    /\ lastPush' = "none"
    /\ UNCHANGED <<clock, manifest, files, uuid, remote, remoteLabels, labelCache,
                   config, synced, envSteps, runs>>

\* the process is stopped (timeout, signal) while a run is in progress
Cancel ==
    /\ UNCHANGED <<sideVars, pulledLast>>
    /\ ~Idle
    /\ result' = [kind |-> run.kind, status |-> "cancelled", message |-> "", out |-> run]
    /\ run' = IdleRun
    /\ lastPush' = "none"
    /\ UNCHANGED <<clock, manifest, files, uuid, remote, remoteLabels, labelCache,
                   mappingFile, config, synced, envSteps, runs>>


\* pull(), lines 543-557
PullStart ==
    /\ UNCHANGED <<sideVars, pulledLast>>
    /\ Idle
    /\ runs < MaxRuns
    /\ runs' = runs + 1
    /\ lastPush' = "none"
    /\ clock' = clock + 1
    /\ UNCHANGED <<manifest, files, uuid, remote, remoteLabels, labelCache,
                   mappingFile, config, synced, envSteps>>
    /\ IF ~isConfigured(config)
       THEN /\ result' = [kind |-> "pull", status |-> "error",
                          message |-> "Linear not configured", out |-> IdleRun]
            /\ UNCHANGED run
       ELSE /\ run' = [IdleRun EXCEPT
                          !.kind = "pull", !.pc = "items",
                          !.mapping = readMapping(mappingFile),
                          !.atStart = mappingFile,
                          !.afterPush = lastPush,
                          !.reads = 1,
                          !.items = [k \in 1..Len(readMapping(mappingFile)) |->
                                        readMapping(mappingFile)[k].artifact_id]]
            /\ result' = NoResult

\* a catch block that also stamps the entry as pulled
pullFail_Stamped(r, artifactId) ==
    [r EXCEPT !.errors = Append(@, artifactId), !.skipped = @ + 1,
              !.mapping = SetEntry(@, [EntryOf(@, artifactId) EXCEPT
                                          !.last_pulled_at = utcNow])]

\* lines 606-609: errors.push(`${artifactId}: ${String(error)}`); skipped += 1
pullFail(r, artifactId) ==
    [r EXCEPT !.errors = Append(@, artifactId), !.skipped = @ + 1]

\* lines 571-577: the local artifact was edited since the last sync
localEditDetected(entry, localArtifact) ==
    LET lastSyncedAt == maxTs(entry.last_pulled_at, entry.last_pushed_at)
        localUpdatedAt == localArtifact.updated_at
    IN  localUpdatedAt # Undef /\ (lastSyncedAt = Undef \/ localUpdatedAt > lastSyncedAt)

\* lines 576-587: whether pull calls createConflictCopy
pullWantsCopy(st, entry, issueDescription, createConflictCopies) ==
    /\ HasArtifact(st, entry.artifact_id)
    /\ LET localArtifact == getArtifact(st, entry.artifact_id)
           localPath == getArtifactPath(localArtifact)
           localContent == IF FileExists(st.files, localPath)
                           THEN st.files[localPath].content ELSE <<>>
       IN  /\ localContent # issueDescription
           /\ localEditDetected(entry, localArtifact)
           /\ createConflictCopies

\* lines 594-602: the entry after a successful overwrite
pullRefresh(entry, issue, now) ==
    [entry EXCEPT
        !.issue_identifier = issue.identifier,
        !.issue_team_name = issue.team.name,
        !.issue_team_id = issue.team.id,
        !.issue_project_name = issue.project.name,
        !.issue_project_id = issue.project.id,
        !.last_pulled_at = now]

\* a pull that forgets the entry of an artifact which is gone from the store
pullApply_DropMissing(r, st, entry, issue, now) ==
    IF HasArtifact(st, entry.artifact_id)
    THEN [st |-> updateArtifact(st, entry.artifact_id,
                    [hasName |-> TRUE, name |-> issue.title,
                     hasContent |-> TRUE, content |-> issue.description], now),
          run |-> [r EXCEPT !.updated = @ + 1,
                            !.mapping = SetEntry(@, pullRefresh(entry, issue, now))]]
    ELSE [st |-> st,
          run |-> [r EXCEPT !.skipped = @ + 1,
                            !.mapping = SelectSeq(@, LAMBDA e :
                                            e.artifact_id # entry.artifact_id)]]

\* lines 566-605 for one entry whose issue was fetched: the store and the
\* run after the conflict check and the overwrite
pullApply(r, st, entry, issue, now) ==
    LET artifactId == entry.artifact_id
        issueDescription == issue.description
        wantsCopy == pullWantsCopy(st, entry, issueDescription, config.create_conflicts)
        st1 == IF wantsCopy
               THEN createConflictCopy(st, [artifact_id |-> artifactId,
                        source |-> StrLinearSource, note |-> StrConflictNote], now)
               ELSE st
        r1 == IF wantsCopy THEN [r EXCEPT !.conflictArtifactIds = Append(@, artifactId)] ELSE r
    IN  IF HasArtifact(st1, artifactId)
        THEN [st |-> updateArtifact(st1, artifactId,
                        [hasName |-> TRUE, name |-> issue.title,
                         hasContent |-> TRUE, content |-> issueDescription], now),
              run |-> [r1 EXCEPT
                          !.updated = @ + 1,
                          !.mapping = SetEntry(@, pullRefresh(entry, issue, now)),
                          !.updatedIssueIdentifiers =
                              IF issue.identifier # Undef THEN Append(@, issue.identifier) ELSE @]]
        ELSE [st |-> st1, run |-> [r1 EXCEPT !.skipped = @ + 1]]

\* One iteration of the loop of lines 559-610.  fetchOk: getIssue succeeds.
PullItem ==
    /\ UNCHANGED sideVars
    /\ run.kind = "pull" /\ run.pc = "items" /\ run.i <= Len(run.items)
    /\ UNCHANGED <<clock, remote, remoteLabels, labelCache, mappingFile, config,
                   result, envSteps, runs, lastPush>>
    /\ LET artifactId == run.items[run.i]
           entry == EntryOf(run.mapping, artifactId)
       IN  IF entry.issue_id = Undef
           THEN /\ run' = [run EXCEPT !.skipped = @ + 1, !.i = @ + 1,
                              !.log = Append(@, LogItem(artifactId, "skipped"))]
                /\ UNCHANGED <<manifest, files, uuid, synced, pulledLast>>
           ELSE \E fetchOk \in BOOLEAN :
                /\ fetchOk => IssueIndex(remote, entry.issue_id) # 0
                /\ IF ~fetchOk
                   THEN /\ run' = [pullFail(run, artifactId) EXCEPT !.i = @ + 1,
                              !.log = Append(@, [LogItem(artifactId, "error") EXCEPT
                                                    !.failed = TRUE,
                                                    !.issue_id = entry.issue_id])]
                        /\ UNCHANGED <<manifest, files, uuid, synced, pulledLast>>
                   ELSE LET issue == remote[IssueIndex(remote, entry.issue_id)]
                            had == HasArtifact(Store, artifactId)
                            localPath == IF had THEN getArtifactPath(getArtifact(Store, artifactId))
                                         ELSE <<>>
                            hadFile == had /\ FileExists(files, localPath)
                            p == pullApply(run, Store, entry, issue, utcNow)
                        IN  /\ manifest' = p.st.manifest
                            /\ files' = p.st.files
                            /\ uuid' = p.st.uuid
                            /\ synced' = IF had THEN synced \cup {<<issue.id, issue.description>>}
                                         ELSE synced
                            /\ pulledLast' = IF had THEN pulledLast \cup {artifactId}
                                             ELSE pulledLast
                            /\ run' = [p.run EXCEPT !.i = @ + 1,
                                  !.calls = Append(@, Call("getIssue", artifactId, entry.issue_id)),
                                  !.log = Append(@, [LogItem(artifactId,
                                                        IF had THEN "updated" ELSE "missing") EXCEPT
                                      !.issue_id = issue.id,
                                      !.title = issue.title,
                                      !.description = issue.description,
                                      !.hadFile = hadFile,
                                      !.mime_type = IF had THEN getArtifact(Store, artifactId).mime_type
                                                    ELSE "",
                                      !.before = IF hadFile THEN files[localPath].content ELSE <<>>,
                                      !.conflict = had /\ localEditDetected(entry,
                                                              getArtifact(Store, artifactId)),
                                      !.copy_id = IF p.st.uuid # uuid THEN p.st.uuid ELSE Undef])]

\* lines 625-637: localByFingerprint / localByTitle, as the list of the
\* non-conflict artifacts with their two keys, in listing order
localIndexOf(st) ==
    LET arts == SelectSeq(listArtifacts(st), LAMBDA a : ~isConflictArtifact(a))
    IN  [k \in 1..Len(arts) |->
            [id |-> arts[k].id,
             key |-> fingerprint(arts[k].name, artifactDescription(st.files, arts[k])),
             titleKey |-> titleKey(arts[k].name)]]

\* (map.get(key) ?? []).find(artifact => !mapped.has(artifact.id)): 0 when none
FirstUnmapped(index, mapped, Matches(_)) ==
    IF \E i \in 1..Len(index) : Matches(index[i]) /\ index[i].id \notin mapped
    THEN CHOOSE i \in 1..Len(index) :
            /\ Matches(index[i]) /\ index[i].id \notin mapped
            /\ \A j \in 1..(i - 1) : ~(Matches(index[j]) /\ index[j].id \notin mapped)
    ELSE 0

\* a variant of pullMatch that matches by fingerprint only
pullMatch_FingerprintOnly(index, mapped, issue) ==
    FirstUnmapped(index, mapped,
        LAMBDA a : a.key = fingerprint(issue.title, issue.description))

\* localMatch ?? localTitleMatch
pullMatch(index, mapped, issue) ==
    LET localMatch == FirstUnmapped(index, mapped,
                          LAMBDA a : a.key = fingerprint(issue.title, issue.description))
        localTitleMatch == FirstUnmapped(index, mapped,
                          LAMBDA a : a.titleKey = titleKey(issue.title))
    IN  IF localMatch # 0 THEN localMatch ELSE localTitleMatch

\* line 665
titleExistsLocally(index, issue) ==
    \E i \in 1..Len(index) : index[i].titleKey = titleKey(issue.title)

\* lines 612-640: the start of pull-create.  listOk: listIssues succeeds.
PullCreateStart ==
    /\ UNCHANGED <<sideVars, pulledLast>>
    /\ run.kind = "pull" /\ run.pc = "items" /\ run.i > Len(run.items)
    /\ config.pull_create
    /\ UNCHANGED <<clock, manifest, files, uuid, remote, remoteLabels, labelCache,
                   mappingFile, config, result, synced, envSteps, runs, lastPush>>
    /\ IF config.pull_label = ""
       THEN run' = [run EXCEPT !.errors = Append(@, 0), !.pc = "finish"]
       ELSE \E listOk \in BOOLEAN :
            run' = [run EXCEPT
                      !.localIndex = localIndexOf(Store),
                      !.mappedArtifactIds = { run.mapping[k].artifact_id : k \in 1..Len(run.mapping) },
                      !.usedIssueIds = MappedIssueIds(run.mapping),
                      !.issues = IF listOk THEN listIssues(remote, PullListLimit) ELSE <<>>,
                      !.j = 1,
                      !.calls = IF listOk THEN Append(@, Call("listIssues", Undef, Undef))
                                ELSE @,
                      !.listFailed = ~listOk,
                      !.errors = IF listOk THEN @ ELSE Append(@, 0),
                      !.pc = IF listOk THEN "create" ELSE "finish"]

\* One iteration of the loop of lines 641-683
PullCreateItem ==
    /\ UNCHANGED sideVars
    /\ run.kind = "pull" /\ run.pc = "create" /\ run.j <= Len(run.issues)
    /\ UNCHANGED <<clock, remote, remoteLabels, labelCache, mappingFile, config,
                   result, envSteps, runs, lastPush>>
    /\ LET issue == run.issues[run.j]
           m == pullMatch(run.localIndex, run.mappedArtifactIds, issue)
       IN  IF issue.id \in run.usedIssueIds \/ ~hasLabel(issue, config.pull_label)
           THEN /\ run' = [run EXCEPT !.j = @ + 1]
                /\ UNCHANGED <<manifest, files, uuid, synced, pulledLast>>
           ELSE IF m # 0
           THEN /\ run' = [run EXCEPT
                      !.mapping = SetEntry(@, mappingEntryFromIssue(run.localIndex[m].id, issue,
                                                  "last_pulled_at", utcNow)),
                      !.mappedArtifactIds = @ \cup {run.localIndex[m].id},
                      !.usedIssueIds = @ \cup {issue.id},
                      !.reconciled = @ + 1,
                      !.reconciledIssueIdentifiers =
                          IF issue.identifier # Undef THEN Append(@, issue.identifier) ELSE @,
                      !.log = Append(@, [LogItem(run.localIndex[m].id, "reconciled") EXCEPT
                                            !.issue_id = issue.id]),
                      !.j = @ + 1]
                /\ UNCHANGED <<manifest, files, uuid, synced, pulledLast>>
           ELSE IF titleExistsLocally(run.localIndex, issue)
           THEN /\ run' = [run EXCEPT !.skippedExistingTitle = @ + 1, !.j = @ + 1]
                /\ UNCHANGED <<manifest, files, uuid, synced, pulledLast>>
           ELSE LET made == createArtifact(Store,
                                [name |-> issue.title, hasContent |-> TRUE,
                                 content |-> issue.description, kind |-> "note",
                                 mime_type |-> "text/markdown",
                                 tags |-> <<StrLinear, StrImported>>], utcNow)
                IN  /\ manifest' = made.st.manifest
                    /\ files' = made.st.files
                    /\ uuid' = made.st.uuid
                    /\ synced' = synced \cup {<<issue.id, issue.description>>}
                    /\ pulledLast' = pulledLast \cup {made.artifact.id}
                    /\ run' = [run EXCEPT
                          !.mapping = SetEntry(@, mappingEntryFromIssue(made.artifact.id, issue,
                                                      "last_pulled_at", utcNow)),
                          !.mappedArtifactIds = @ \cup {made.artifact.id},
                          !.usedIssueIds = @ \cup {issue.id},
                          !.createdIssueIdentifiers =
                              IF issue.identifier # Undef THEN Append(@, issue.identifier) ELSE @,
                          !.log = Append(@, [LogItem(made.artifact.id, "imported") EXCEPT
                                                !.issue_id = issue.id]),
                          !.j = @ + 1]

\* line 690 and the returned record
PullFinish ==
    /\ UNCHANGED <<sideVars, pulledLast>>
    /\ run.kind = "pull"
    /\ \/ run.pc = "finish"
       \/ run.pc = "create" /\ run.j > Len(run.issues)
       \/ run.pc = "items" /\ run.i > Len(run.items) /\ ~config.pull_create
    /\ mappingFile' = writeMapping(run.mapping)
    /\ result' = [kind |-> "pull", status |-> "ok", message |-> "",
                  out |-> [run EXCEPT !.writes = @ + 1]]
    /\ run' = IdleRun
    /\ lastPush' = "none"
    /\ UNCHANGED <<clock, manifest, files, uuid, remote, remoteLabels, labelCache,
                   config, synced, envSteps, runs>>


\* ------------------------------------------------ the users of both sides
\* What the people around a run do between runs: they create, edit and
\* delete artifacts through the store, and create and edit issues in
\* Linear.  The texts they type come from small sets.
Bodies == { <<"x">>, <<"y">> }
StrCapConflictTag == <<"C","o","n","f","l","i","c","t">>

NoteInput(name, hasContent, content, mime, tags) ==
    [name |-> name, hasContent |-> hasContent, content |-> content,
     kind |-> IF mime = "text/markdown" THEN "note" ELSE "image",
     mime_type |-> mime, tags |-> tags]

StrCapConflictName == <<"(","C","O","N","F","L","I","C","T",")">>

ArtifactInputs ==
    { NoteInput(<<"a">>, TRUE, <<"x">>, "text/markdown", <<>>),
      NoteInput(<<"A">>, TRUE, <<"y">>, "text/markdown", <<>>),
      NoteInput(<<"a">>, TRUE, <<"x">>, "image/png", <<>>),
      NoteInput(<<"a">>, TRUE, <<"x">>, "text/markdown", <<StrCapConflictTag>>),
      NoteInput(StrCapConflictName, TRUE, <<"x">>, "text/markdown", <<>>) }

IssueInput(title, description, labels) ==
    [title |-> title, description |-> description, labels |-> labels]

IssueInputs ==
    { IssueInput(<<"a">>, <<"x">>, {"reffy"}),
      IssueInput(<<"a">>, <<"y">>, {"reffy"}),
      IssueInput(<<"a">>, <<"x">>, {"import"}),
      IssueInput(<<"b">>, <<"y">>, {"import"}) }

EnvStep ==
    /\ UNCHANGED sideVars
    /\ Idle
    /\ envSteps < MaxEnvSteps
    /\ envSteps' = envSteps + 1
    /\ clock' = clock + 1
    /\ result' = NoResult
    /\ UNCHANGED <<remoteLabels, labelCache, mappingFile, config, run, synced, runs>>

UserCreate ==
    /\ EnvStep
    /\ UNCHANGED pulledLast
    /\ \E input \in ArtifactInputs :
         LET made == createArtifact(Store, input, clock + 1)
         IN  /\ manifest' = made.st.manifest
             /\ files' = made.st.files
             /\ uuid' = made.st.uuid
    /\ lastPush' = "none"
    /\ UNCHANGED remote

UserEdit ==
    /\ EnvStep
    /\ \E k \in 1..Len(manifest.artifacts), content \in Bodies :
         LET st == updateArtifact(Store, manifest.artifacts[k].id,
                       [hasName |-> FALSE, name |-> <<>>,
                        hasContent |-> TRUE, content |-> content], clock + 1)
         IN  /\ manifest' = st.manifest
             /\ files' = st.files
             /\ uuid' = st.uuid
             /\ pulledLast' = pulledLast \ {manifest.artifacts[k].id}
    /\ lastPush' = "none"
    /\ UNCHANGED remote

UserDelete ==
    /\ EnvStep
    /\ \E k \in 1..Len(manifest.artifacts) :
         LET st == deleteArtifact(Store, manifest.artifacts[k].id, clock + 1)
         IN  /\ manifest' = st.manifest
             /\ files' = st.files
             /\ uuid' = st.uuid
             /\ pulledLast' = pulledLast \ {manifest.artifacts[k].id}
    /\ lastPush' = "none"
    /\ UNCHANGED remote

RemoteCreate ==
    /\ EnvStep
    /\ UNCHANGED pulledLast
    /\ \E input \in IssueInputs : remote' = createIssue(remote, input, clock + 1)
    /\ UNCHANGED <<manifest, files, uuid, lastPush>>

RemoteEdit ==
    /\ EnvStep
    /\ UNCHANGED pulledLast
    /\ \E k \in 1..Len(remote), description \in Bodies :
         /\ description # remote[k].description
         /\ remote' = updateIssue(remote, [issue_id |-> remote[k].id,
                                           title |-> remote[k].title,
                                           description |-> description], clock + 1)
    /\ UNCHANGED <<manifest, files, uuid, lastPush>>

\* the states in which readMapping finds no mapping in the file
DamagedStates == {"missing", "invalid", "no_artifacts"}

\* The mapping file is removed, or rewritten by hand or by a broken tool: a
\* text that is not JSON, or an object without the artifacts key.  The
\* entries the damaged text may still hold stay in the file.
MappingDamage ==
    /\ UNCHANGED <<sideVars, pulledLast>>
    /\ Idle
    /\ envSteps < MaxEnvSteps
    /\ envSteps' = envSteps + 1
    /\ clock' = clock + 1
    /\ result' = NoResult
    /\ lastPush' = "none"
    /\ \E state \in DamagedStates :
         /\ state # mappingFile.state
         /\ mappingFile' = [state |-> state,
                            artifacts |-> IF state = "missing" THEN EmptyMapping
                                          ELSE mappingFile.artifacts]
    /\ UNCHANGED <<manifest, files, uuid, remote, remoteLabels, labelCache,
                   config, run, synced, runs>>

\* ------------------------------------------------ the store, used directly
\* Files and directories that users put into .references/artifacts by hand.
DroppedFiles == { <<"n",".","m","d">>, <<"p","-","q",".","p","n","g">> }
DroppedDirs == { <<"s","u","b">> }

DropInto(fs, names, now) ==
    [f \in DOMAIN fs \cup names |->
        IF f \in names
        THEN IF f \in DroppedDirs
             THEN [content |-> <<>>, mtime |-> now, dir |-> TRUE]
             ELSE [content |-> <<"x">>, mtime |-> now]
        ELSE fs[f]]

DropEntry ==
    /\ EnvStep
    /\ UNCHANGED pulledLast
    /\ \E name \in (DroppedFiles \cup DroppedDirs) \ DOMAIN files :
          files' = DropInto(files, {name}, clock + 1)
    /\ lastPush' = "none"
    /\ UNCHANGED <<manifest, uuid, remote>>

\* the orders in which readdir may list the entries: the files of the
\* manifest in manifest order, the other entries in any order
Perms(S) ==
    { f \in [1..Cardinality(S) -> S] : \A i, j \in 1..Cardinality(S) : i # j => f[i] # f[j] }

Readdir(st) ==
    LET names == [k \in 1..Len(st.manifest.artifacts) |-> st.manifest.artifacts[k].filename]
        listed == SelectSeq(names, LAMBDA n : n \in DOMAIN st.files)
    IN  { listed \o rest : rest \in Perms(DOMAIN st.files \ SeqRange(names)) }

\* `reffy reindex`: reindexArtifacts and the {added, total} it returns
Reindex ==
    /\ UNCHANGED <<sideVars, pulledLast>>
    /\ Idle
    /\ envSteps < MaxEnvSteps
    /\ envSteps' = envSteps + 1
    /\ clock' = clock + 1
    /\ lastPush' = "none"
    /\ \E entries \in Readdir(Store) :
          LET st == reindexArtifacts(Store, entries, clock + 1)
          IN  /\ manifest' = st.manifest
              /\ files' = st.files
              /\ uuid' = st.uuid
              /\ result' = [kind |-> "reindex", status |-> "ok", message |-> "",
                            out |-> IdleRun,
                            added |-> Len(st.manifest.artifacts) - Len(manifest.artifacts),
                            total |-> Len(st.manifest.artifacts)]
    /\ UNCHANGED <<remote, remoteLabels, labelCache, mappingFile, config, run, synced, runs>>

\* recordConflict and createConflictCopy called on the store directly
UserRecordConflict ==
    /\ EnvStep
    /\ UNCHANGED pulledLast
    /\ \E artifactId \in 1..(uuid + 1) :
          LET st == recordConflict(Store, [artifact_id |-> artifactId, source |-> StrLinearSource,
                                           note |-> <<>>, conflict_artifact_id |-> Undef],
                                   clock + 1)
          IN  /\ manifest' = st.manifest
              /\ files' = st.files
              /\ uuid' = st.uuid
    /\ UNCHANGED <<remote, lastPush>>

UserConflictCopy ==
    /\ EnvStep
    /\ UNCHANGED pulledLast
    /\ \E k \in 1..Len(manifest.artifacts) :
          LET st == createConflictCopy(Store, [artifact_id |-> manifest.artifacts[k].id,
                                               source |-> StrLinearSource,
                                               note |-> StrConflictNote], clock + 1)
          IN  /\ manifest' = st.manifest
              /\ files' = st.files
              /\ uuid' = st.uuid
    /\ lastPush' = "none"
    /\ UNCHANGED remote

\* ------------------------------------------------- keys of titles and bodies
\* normalizeText, titleKey and fingerprint applied to two title/body pairs,
\* as push does for an artifact and an issue (lines 423-433, 459-465) and
\* pull-create for an issue and an artifact (625-637, 645-653).
MaxTitleLen == 4

TitleChars == {"a", "A", " "}

TitleTexts == {<<>>} \cup SeqsUpTo(TitleChars, MaxTitleLen)

BodyTexts == { <<"x">>, <<"x", " ">>, <<"y">> }

NoTexts == [asked |-> FALSE, left |-> [title |-> <<>>, body |-> <<>>],
            right |-> [title |-> <<>>, body |-> <<>>],
            titleKeys |-> <<>>, fingerprints |-> <<>>]

\* candidate lookup by key: the two texts match when the fingerprints are
\* equal, or else when the title keys are equal
ComputeKeys ==
    /\ ~texts.asked
    /\ texts' = [texts EXCEPT
                    !.asked = TRUE,
                    !.titleKeys = <<titleKey(texts.left.title), titleKey(texts.right.title)>>,
                    !.fingerprints = <<fingerprint(texts.left.title, texts.left.body),
                                       fingerprint(texts.right.title, texts.right.body)>>]
    /\ UNCHANGED projectVars
    /\ UNCHANGED <<cleanup, agents, doctor, laterToolVars>>

\* ------------------------------------- tools/cleanup-linear-duplicates.ts
MaxCleanups == 2

NoCleanup ==
    [count |-> 0, apply |-> FALSE, code |-> Undef, calls |-> <<>>, wrote |-> FALSE,
     archived |-> {}]

\* lines 55-64: the artifacts that are conflict artifacts and whose entry
\* has an issue id
cleanupCandidates(st, mapping) ==
    SelectSeq(st.manifest.artifacts,
              LAMBDA a : /\ isConflictArtifact(a)
                         /\ HasEntry(mapping, a.id)
                         /\ EntryOf(mapping, a.id).issue_id # Undef)

\* a loop that drops the entry of every candidate, archived or not
cleanupRemoved_All(items, failing) == { items[k].id : k \in 1..Len(items) }

\* lines 87-99: the entries that the loop deletes; failing are the artifacts
\* whose archiveIssue call throws
cleanupRemoved(items, failing) == { items[k].id : k \in 1..Len(items) } \ failing

\* main, lines 37-113: exit code, the mapping file afterwards, the
\* archiveIssue calls made and the issues archived by them
cleanupMain(st, file, cfg, apply, failing) ==
    LET mapping == readMapping(file)
        items == cleanupCandidates(st, mapping)
        removed == cleanupRemoved(items, failing)
        quiet == [code |-> 0, file |-> file, calls |-> <<>>, wrote |-> FALSE, archived |-> {}]
    IN  IF ~isConfigured(cfg) THEN [quiet EXCEPT !.code = 1]
        ELSE IF items = <<>> THEN quiet
        ELSE IF ~apply THEN quiet
        ELSE [code |-> IF \E k \in 1..Len(items) : items[k].id \in failing THEN 2 ELSE 0,
              file |-> [state |-> "ok",
                        artifacts |-> SelectSeq(mapping, LAMBDA e : e.artifact_id \notin removed)],
              calls |-> [k \in 1..Len(items) |-> EntryOf(mapping, items[k].id).issue_id],
              wrote |-> TRUE,
              archived |-> { EntryOf(mapping, items[k].id).issue_id :
                               k \in { j \in 1..Len(items) : items[j].id \notin failing } }]

Cleanup ==
    /\ Idle
    /\ cleanup.count < MaxCleanups
    /\ \E apply \in BOOLEAN,
          failing \in SUBSET { manifest.artifacts[k].id : k \in 1..Len(manifest.artifacts) } :
          LET out == cleanupMain(Store, mappingFile, config, apply, failing)
          IN  /\ (out.calls = <<>> => failing = {})
              /\ mappingFile' = out.file
              /\ cleanup' = [count |-> cleanup.count + 1, apply |-> apply, code |-> out.code,
                             calls |-> out.calls, wrote |-> out.wrote,
                             archived |-> cleanup.archived \cup out.archived]
    /\ UNCHANGED <<clock, manifest, files, uuid, remote, remoteLabels, labelCache,
                   config, run, result, synced, envSteps, runs, lastPush,
                   pulledLast, peer>>
    /\ UNCHANGED <<texts, agents, doctor, laterToolVars>>

\* ------------------------------------------------------------ reffy init
\* The markers are single symbols of the text; the instructions between
\* them are one line, followed by the empty line of the block.
REFFY_START == <<"<!-- REFFY:START -->">>
REFFY_END == <<"<!-- REFFY:END -->">>
OPENSPEC_START == <<"<!-- OPENSPEC:START -->">>

REFFY_BLOCK == REFFY_START \o <<"\n", "#", "\n", "\n">> \o REFFY_END

\* s.indexOf(p) + 1
IndexOf(s, p) ==
    IF Includes(s, p)
    THEN CHOOSE i \in 1..(Len(s) - Len(p) + 1) :
            /\ SubSeq(s, i, i + Len(p) - 1) = p
            /\ \A j \in 1..(i - 1) : SubSeq(s, j, j + Len(p) - 1) # p
    ELSE 0

\* s.split(p)[0]
splitFirst(s, p) == IF Includes(s, p) THEN SubSeq(s, 1, IndexOf(s, p) - 1) ELSE s

\* s.split(p, 2)[1] ?? "": the text between the first and the second p
splitSecond(s, p) ==
    IF Includes(s, p)
    THEN splitFirst(SubSeq(s, IndexOf(s, p) + Len(p), Len(s)), p)
    ELSE <<>>

\* upsertReffyBlock, lines 732-745
upsertReffyBlock(content) ==
    IF Includes(content, REFFY_START) /\ Includes(content, REFFY_END)
    THEN splitFirst(content, REFFY_START) \o REFFY_BLOCK
         \o trimStart(splitSecond(content, REFFY_END))
    ELSE IF Includes(content, OPENSPEC_START)
    THEN trimEnd(splitFirst(content, OPENSPEC_START)) \o <<"\n", "\n">> \o REFFY_BLOCK
         \o <<"\n", "\n">> \o OPENSPEC_START \o splitSecond(content, OPENSPEC_START)
    ELSE IF trim(content) # <<>>
    THEN REFFY_BLOCK \o <<"\n", "\n">> \o trimStart(content)
    ELSE REFFY_BLOCK \o <<"\n">>

MaxInits == 3
MaxAgentsLen == 3

AgentsSymbols == {"x", "\n"} \cup SeqRange(REFFY_START) \cup SeqRange(REFFY_END)
                 \cup SeqRange(OPENSPEC_START)

\* a missing AGENTS.md reads as the empty text
NoAgents == [content |-> <<>>, written |-> <<>>]

\* initAgents, lines 747-759
InitAgents ==
    /\ Len(agents.written) < MaxInits
    /\ agents' = [content |-> upsertReffyBlock(agents.content),
                  written |-> Append(agents.written, upsertReffyBlock(agents.content))]
    /\ UNCHANGED projectVars
    /\ UNCHANGED <<texts, cleanup, doctor, laterToolVars>>

\* ---------------------------------------------------------- reffy doctor
\* manifest.ts (unnamed/part_004) KIND_EXTENSIONS, lines 9-18
KIND_EXTENSIONS ==
    [kind \in {"note", "json", "diagram", "image", "html", "pdf", "doc", "file"} |->
        CASE kind = "note" -> { StrExtMd }
          [] kind = "json" -> { <<".","j","s","o","n">> }
          [] kind = "diagram" -> { <<".","e","x","c","a","l","i","d","r","a","w">> }
          [] kind = "image" -> { <<".","p","n","g">>, <<".","j","p","g">>, <<".","j","p","e","g">> }
          [] kind = "html" -> { <<".","h","t","m","l">>, <<".","h","t","m">> }
          [] kind = "pdf" -> { <<".","p","d","f">> }
          [] kind = "doc" -> { <<".","d","o","c">>, <<".","d","o","c","x">> }
          [] kind = "file" -> {}]

\* the errors of one artifact, manifest.ts lines 66-95 and 135-165; the
\* filenames of the model are relative and have no ".." part
artifactValid(arts, index, fs, artifactsDir) ==
    LET item == arts[index]
    IN  /\ item.name # <<>> /\ item.filename # <<>>
        /\ item.kind # "" /\ item.mime_type # ""
        /\ item.size_bytes >= 0
        /\ \A j \in 1..(index - 1) :
              arts[j].id # item.id /\ arts[j].filename # item.filename
        /\ item.kind \in DOMAIN KIND_EXTENSIONS
        /\ KIND_EXTENSIONS[item.kind] # {}
              => toLowerCase(extname(item.filename)) \in KIND_EXTENSIONS[item.kind]
        /\ artifactsDir
        /\ FileExists(fs, item.filename)
        /\ isFile(fs, item.filename)

\* validateManifest(...).ok, manifest.ts lines 97-180.  The states of the
\* manifest file: "missing", "unparsable" (readFile or JSON.parse throws),
\* "not_object" (the root is no object), "ok" (it holds the manifest of
\* the store)
validateManifest(state, st, artifactsDir) ==
    /\ state = "ok"
    /\ st.manifest.version = MANIFEST_VERSION
    /\ \A k \in 1..Len(st.manifest.artifacts) :
          artifactValid(st.manifest.artifacts, k, st.files, artifactsDir)

Check(id, level, ok) == [id |-> id, level |-> level, ok |-> ok]

FailedOf(checks, levels) ==
    Len(SelectSeq(checks, LAMBDA c : c.level \in levels /\ ~c.ok))

\* a summary that counts every failed check as a required one
summarizeChecks_AllRequired(checks) ==
    [required_total |-> Len(SelectSeq(checks, LAMBDA c : c.level = "required")),
     required_failed |-> FailedOf(checks, {"required", "optional"}),
     optional_total |-> Len(SelectSeq(checks, LAMBDA c : c.level = "optional")),
     optional_failed |-> FailedOf(checks, {"optional"})]

\* summarizeChecks, doctor.ts (unnamed/part_002) lines 44-54
summarizeChecks(checks) ==
    [required_total |-> Len(SelectSeq(checks, LAMBDA c : c.level = "required")),
     required_failed |-> FailedOf(checks, {"required"}),
     optional_total |-> Len(SelectSeq(checks, LAMBDA c : c.level = "optional")),
     optional_failed |-> FailedOf(checks, {"optional"})]

\* runDoctor, doctor.ts (unnamed/part_002) lines 56-126
runDoctor(layout, st, openspec) ==
    LET checks ==
            << Check("refs_dir_exists", "required", layout.refsDir),
               Check("artifacts_dir_exists", "required", layout.artifactsDir),
               Check("root_agents_exists", "required", layout.rootAgents),
               Check("refs_agents_exists", "required", layout.refsAgents),
               Check("manifest_valid", "required",
                     IF layout.manifestFile = "missing" THEN FALSE
                     ELSE validateManifest(layout.manifestFile, st, layout.artifactsDir)),
               Check("openspec_available", "optional", openspec) >>
    IN  [checks |-> checks, summary |-> summarizeChecks(checks)]

NoReport == [checks |-> <<>>, summary |-> [required_total |-> 0, required_failed |-> 0,
                                            optional_total |-> 0, optional_failed |-> 0]]

\* the layout that init and bootstrap leave, openspec installed, doctor not run
HealthyLayout ==
    [refsDir |-> TRUE, artifactsDir |-> TRUE, rootAgents |-> TRUE, refsAgents |-> TRUE,
     manifestFile |-> "ok"]

NoDoctor == [layout |-> HealthyLayout, openspec |-> TRUE, asked |-> FALSE, report |-> NoReport]

\* what lies below .references is missing when .references is missing
Layouts ==
    { l \in [refsDir : BOOLEAN, artifactsDir : BOOLEAN, rootAgents : BOOLEAN,
              refsAgents : BOOLEAN,
              manifestFile : {"missing", "unparsable", "not_object", "ok"}] :
        ~l.refsDir => ~l.artifactsDir /\ ~l.refsAgents /\ l.manifestFile = "missing" }

\* `reffy doctor`
RunDoctor ==
    /\ Idle
    /\ ~doctor.asked
    /\ doctor' = [doctor EXCEPT !.asked = TRUE,
                                !.report = runDoctor(doctor.layout, Store, doctor.openspec)]
    /\ UNCHANGED projectVars
    /\ UNCHANGED <<texts, cleanup, agents, laterToolVars>>

\* --------------------------------------- diagram render: convertSpecToMermaid
\* A spec document is the sequence of its lines; a line is a requirement
\* heading ("R": ### Requirement: ...), a scenario heading ("S":
\* #### Scenario: ...) or anything else ("T").  The index of a match is the
\* number of its line.
LineKinds == {"R", "S", "T"}

\* the longest document
MaxLines == 4

\* Array.from(specText.matchAll(regex)): the places of the matches, in order
matchAll(specText, kind) ==
    SelectSeq([k \in 1..Len(specText) |-> k], LAMBDA k : specText[k] = kind)

\* toNodeId(prefix, index), index counted from 1 here
toNodeId(prefix, index) == <<prefix, index>>

NoMermaid == [failed |-> FALSE, nodes |-> <<>>, edges |-> <<>>]

\* the while loop of one requirement: takes the scenarios from the cursor
\* on that lie between the requirement and the next one
RECURSIVE scenarioLoop(_, _, _, _, _, _)
scenarioLoop(out, scenarios, scenarioCursor, requirementIndex, nextRequirementIndex, requirementId) ==
    IF scenarioCursor > Len(scenarios)
    THEN [out |-> out, scenarioCursor |-> scenarioCursor]
    ELSE IF scenarios[scenarioCursor] < requirementIndex
            \/ scenarios[scenarioCursor] >= nextRequirementIndex
    THEN [out |-> out, scenarioCursor |-> scenarioCursor]
    ELSE scenarioLoop(
            [out EXCEPT
                !.nodes = Append(@, [id |-> toNodeId("S", scenarioCursor),
                                     line |-> scenarios[scenarioCursor]]),
                !.edges = Append(@, <<requirementId, toNodeId("S", scenarioCursor)>>)],
            scenarios, scenarioCursor + 1, requirementIndex, nextRequirementIndex,
            requirementId)

\* the for loop over the requirements
RECURSIVE requirementLoop(_, _, _, _, _, _)
requirementLoop(out, requirements, scenarios, i, scenarioCursor, specLength) ==
    IF i > Len(requirements)
    THEN out
    ELSE LET nextRequirementIndex == IF i + 1 <= Len(requirements)
                                     THEN requirements[i + 1] ELSE specLength + 1
             requirementId == toNodeId("R", i)
             withNode == [out EXCEPT !.nodes = Append(@, [id |-> requirementId,
                                                           line |-> requirements[i]])]
             inner == scenarioLoop(withNode, scenarios, scenarioCursor, requirements[i],
                                   nextRequirementIndex, requirementId)
         IN  requirementLoop(inner.out, requirements, scenarios, i + 1,
                             inner.scenarioCursor, specLength)

convertSpecToMermaid(specText) ==
    LET requirements == matchAll(specText, "R")
        scenarios == matchAll(specText, "S")
    IN  IF Len(requirements) = 0
        THEN [NoMermaid EXCEPT !.failed = TRUE]
        ELSE requirementLoop(NoMermaid, requirements, scenarios, 1, 1, Len(specText))

NoDiagram == [specText |-> <<>>, asked |-> FALSE, out |-> NoMermaid]

\* diagram render on a spec document
RenderDiagram ==
    /\ ~diagram.asked
    /\ diagram' = [diagram EXCEPT !.asked = TRUE,
                                  !.out = convertSpecToMermaid(diagram.specText)]
    /\ UNCHANGED projectVars
    /\ UNCHANGED <<earlierToolVars, watcher, startup, validation>>

\* ------------------------------------------------ watcher: ReferencesWatcher
\* The fields of the object (watcher, timer, paths) and, as history, the
\* calls of onChange.  Time passes in ticks: a pending timer fires when its
\* delay has run down.  watcher is "none" (null), "open" or, while stop()
\* waits for close(), "closing"; timer is "null", "pending" or, once it has
\* fired and the field still holds its handle, "done".
WatchedPaths == {"a.md", "b.md"}

\* the longest delay (LINEAR_WATCH_DEBOUNCE), in ticks
MaxDebounce == 2

\* how many file events the watcher reports
MaxEvents == 3

\* how often start() is called
MaxStarts == 2

NoWatcher ==
    [watcher |-> "none", timer |-> "null", left |-> 0, paths |-> {}, debounceMs |-> 0,
     calls |-> <<>>,    \* history: the sets passed to onChange
     owed |-> {},       \* history: paths reported and not passed to onChange since
     spurious |-> 0,    \* history: paths passed to onChange that were not owed
     empty |-> 0,       \* history: calls of onChange with an empty set
     events |-> 0, lateEvents |-> 0, starts |-> 0, stops |-> 0,
     held |-> {},       \* history: paths that were collected when stop() began
     lateCalls |-> 0,   \* history: calls of onChange after a stop() completed
     stale |-> {}]      \* history: held paths passed to onChange after that stop()

\* start(), lines 38-62
start(w) == [w EXCEPT !.watcher = "open"]

\* a variant of the timer callback that keeps the collected paths
timerCallback_KeepPaths(w) ==
    [w EXCEPT !.timer = "done", !.calls = Append(@, w.paths)]

\* the timer callback, lines 52-56
timerCallback(w) ==
    [w EXCEPT !.paths = {}, !.timer = "done", !.calls = Append(@, w.paths)]

\* schedule(filePath), lines 49-57
schedule(w, filePath) ==
    [w EXCEPT !.paths = @ \cup {filePath}, !.timer = "pending", !.left = w.debounceMs]

\* stop(), lines 65-70, up to the await
stopBeforeClose(w) ==
    [w EXCEPT !.timer = "null",
              !.watcher = IF w.watcher = "open" THEN "closing" ELSE @]

\* stop(), line 71
stopAfterClose(w) == [w EXCEPT !.watcher = "none"]

WatcherOthers == <<earlierToolVars, diagram, startup, validation>>

StartWatcher ==
    /\ watcher.watcher = "none"
    /\ watcher.starts < MaxStarts
    /\ watcher' = [start(watcher) EXCEPT !.starts = @ + 1]
    /\ UNCHANGED projectVars
    /\ UNCHANGED WatcherOthers

\* the underlying watcher reports add, change or unlink of a path
Reported(filePath) ==
    /\ watcher.events < MaxEvents
    /\ watcher' = [schedule(watcher, filePath) EXCEPT
                      !.events = @ + 1,
                      !.owed = @ \cup {filePath},
                      !.held = @ \ {filePath}]
    /\ UNCHANGED projectVars
    /\ UNCHANGED WatcherOthers

FileEvent ==
    /\ watcher.watcher = "open"
    /\ \E filePath \in WatchedPaths : Reported(filePath)

\* an event that the underlying watcher still reports while close() is
\* under way
LateFileEvent ==
    /\ watcher.watcher = "closing"
    /\ watcher.events < MaxEvents
    /\ \E filePath \in WatchedPaths :
          watcher' = [schedule(watcher, filePath) EXCEPT
                         !.events = @ + 1,
                         !.lateEvents = @ + 1,
                         !.owed = @ \cup {filePath},
                         !.held = @ \ {filePath}]
    /\ UNCHANGED projectVars
    /\ UNCHANGED WatcherOthers

\* time passes
Tick ==
    /\ watcher.timer = "pending"
    /\ watcher.left > 0
    /\ watcher' = [watcher EXCEPT !.left = @ - 1]
    /\ UNCHANGED projectVars
    /\ UNCHANGED WatcherOthers

\* the delay has run down: the timer callback runs
TimerFire ==
    /\ watcher.timer = "pending"
    /\ watcher.left = 0
    /\ LET stopped == watcher.stops > 0 /\ watcher.watcher = "none"
           afterStop == watcher.stops > 0
       IN  watcher' = [timerCallback(watcher) EXCEPT
                          !.owed = @ \ watcher.paths,
                          !.spurious = @ + Cardinality(watcher.paths \ watcher.owed),
                          !.empty = IF watcher.paths = {} THEN @ + 1 ELSE @,
                          !.lateCalls = IF stopped THEN @ + 1 ELSE @,
                          !.stale = IF afterStop THEN @ \cup (watcher.paths \cap watcher.held)
                                    ELSE @,
                          !.held = @ \ watcher.paths]
    /\ UNCHANGED projectVars
    /\ UNCHANGED WatcherOthers

StopBegin ==
    /\ watcher.watcher = "open"
    /\ watcher' = [stopBeforeClose(watcher) EXCEPT !.held = watcher.paths]
    /\ UNCHANGED projectVars
    /\ UNCHANGED WatcherOthers

\* close() has returned
StopEnd ==
    /\ watcher.watcher = "closing"
    /\ watcher' = [stopAfterClose(watcher) EXCEPT !.stops = @ + 1]
    /\ UNCHANGED projectVars
    /\ UNCHANGED WatcherOthers

\* ------------------------------------- store: the constructor's deferred work
\* A ReferencesStore constructed on a repository, and createArtifact calls
\* on it, one after another, in the steps in which they touch the manifest
\* file.  ctor is the place of ensureStructure: "new", "access" (fs.access
\* is under way), "rejected" (the catch handler is to run), "done"; create
\* is "idle" or "write" (createArtifact holds the manifest it read, with
\* its artifact added, and is to write it).
StartupInputs ==
    { NoteInput(<<"a">>, TRUE, <<"x">>, "text/markdown", <<>>),
      NoteInput(<<"b">>, TRUE, <<"y">>, "text/markdown", <<>>) }

\* how many createArtifact calls follow the construction
MaxCreates == 2

NoStartup ==
    [ctor |-> "new", create |-> "idle",
     manifestFile |-> "missing",     \* "missing" or "present"
     st |-> [manifest |-> emptyManifest(1), files |-> <<>>, uuid |-> 0],
     held |-> emptyManifest(1),      \* the manifest createArtifact is to write
     heldId |-> Undef,
     hadManifest |-> FALSE,          \* history: the repository had a manifest file
     returned |-> {},                \* history: ids of the artifacts createArtifact returned
     emptyWritten |-> FALSE]         \* history: the catch handler wrote its manifest

\* readManifest, lines 52-59, on the file of this repository
startupReadManifest(s, now) ==
    IF s.manifestFile = "missing" THEN emptyManifest(now) ELSE s.st.manifest

\* the catch handler of ensureStructure, lines 36-38
ensureStructureCatch(s, now) ==
    [s EXCEPT !.ctor = "done",
              !.manifestFile = "present",
              !.st.manifest = emptyManifest(now),
              !.emptyWritten = TRUE]

StartupOthers == <<earlierToolVars, diagram, watcher, validation>>

\* new ReferencesStore(repoRoot): the directories are made, fs.access is
\* started and not awaited (lines 25-36)
Construct ==
    /\ startup.ctor = "new"
    /\ startup' = [startup EXCEPT !.ctor = "access"]
    /\ UNCHANGED projectVars
    /\ UNCHANGED StartupOthers

\* fs.access settles: rejected when there is no manifest file at that moment
AccessSettles ==
    /\ startup.ctor = "access"
    /\ startup' = [startup EXCEPT
                      !.ctor = IF startup.manifestFile = "missing" THEN "rejected" ELSE "done"]
    /\ UNCHANGED projectVars
    /\ UNCHANGED StartupOthers

\* the catch handler writes the empty manifest
WriteEmptyManifest ==
    /\ startup.ctor = "rejected"
    /\ startup' = ensureStructureCatch(startup, clock)
    /\ UNCHANGED projectVars
    /\ UNCHANGED StartupOthers

\* createArtifact, lines 130-169: the file is written, the manifest read
\* and the artifact added to the copy in memory
CreateRead ==
    /\ startup.ctor # "new"
    /\ startup.create = "idle"
    /\ Cardinality(startup.returned) < MaxCreates
    /\ \E input \in StartupInputs :
          LET made == createArtifact(
                          [manifest |-> startupReadManifest(startup, clock),
                           files |-> startup.st.files, uuid |-> startup.st.uuid],
                          input, clock)
          IN  startup' = [startup EXCEPT
                             !.create = "write",
                             !.st.files = made.st.files,
                             !.st.uuid = made.st.uuid,
                             !.held = made.st.manifest,
                             !.heldId = made.artifact.id]
    /\ UNCHANGED projectVars
    /\ UNCHANGED StartupOthers

\* createArtifact, lines 170-171: writeManifest and return
CreateWrite ==
    /\ startup.create = "write"
    /\ startup' = [startup EXCEPT
                      !.create = "idle",
                      !.manifestFile = "present",
                      !.st.manifest = startup.held,
                      !.returned = @ \cup {startup.heldId}]
    /\ UNCHANGED projectVars
    /\ UNCHANGED StartupOthers

\* ------------------------------------------- manifest.ts: validateManifest
\* A manifest as JSON.parse returns it.  An entry of artifacts is an object
\* or not; of an object's fields the model follows id, filename, kind and
\* size_bytes, each field present or absent (name, mime_type, tags and the
\* two dates are present and well formed).  The errors are named by their
\* kind, not by their text.
Present(value) == [present |-> TRUE, value |-> value]
Absent == [present |-> FALSE, value |-> <<>>]

RawItem(id, filename, kind, size_bytes) ==
    [isObject |-> TRUE, id |-> id, filename |-> filename, kind |-> kind,
     size_bytes |-> size_bytes]

\* an entry that is no object (a string, a number, null)
NotAnObject == [RawItem(Absent, Absent, "", 0) EXCEPT !.isObject = FALSE]

\* the files of the artifacts directory, with their sizes
ValidationDisk ==
    [f \in { <<"a",".","m","d">>, <<"b",".","p","n","g">> } |-> 1]

\* path.isAbsolute(filename): throws a TypeError when filename is no string
isAbsolute(filename) == Len(filename) > 0 /\ filename[1] = "/"

\* path.normalize on the filenames of the model, which have no "." part,
\* no doubled separator and ".." at the start only
normalize(filename) == IF filename = <<>> THEN <<".">> ELSE filename

startsWithDots(name) == Len(name) >= 2 /\ name[1] = "." /\ name[2] = "."

\* relativePathSafe, lines 29-33, for a string
relativePathSafe(filename) ==
    /\ ~isAbsolute(filename)
    /\ ~startsWithDots(normalize(filename))

\* validateArtifactShape, lines 66-95: the errors it pushes for an object
shapeErrors(item) ==
    (IF ~item.id.present \/ item.id.value = <<>> THEN <<"id">> ELSE <<>>)
    \o (IF ~item.filename.present \/ item.filename.value = <<>> THEN <<"filename">> ELSE <<>>)
    \o (IF item.kind = "" THEN <<"kind">> ELSE <<>>)
    \o (IF item.size_bytes < 0 THEN <<"size_bytes">> ELSE <<>>)

NoValidationResult ==
    [threw |-> FALSE, ok |-> FALSE, errors |-> <<>>, warnings |-> <<>>, artifact_count |-> 0]

\* the body of the loop for one object, lines 139-172, after the shape
\* check; acc holds errors, warnings, seenIds, seenFiles and threw
validateItem(acc, item, disk) ==
    LET dups == (IF item.id \in acc.seenIds THEN <<"duplicate_id">> ELSE <<>>)
                \o (IF item.filename \in acc.seenFiles THEN <<"duplicate_filename">> ELSE <<>>)
        seen == [acc EXCEPT !.seenIds = @ \cup {item.id},
                            !.seenFiles = @ \cup {item.filename},
                            !.errors = @ \o dups]
        filename == item.filename.value
        kindErrors ==
            IF item.kind \notin DOMAIN KIND_EXTENSIONS
            THEN <<"kind_unknown">>
            ELSE IF KIND_EXTENSIONS[item.kind] # {}
                    /\ toLowerCase(extname(filename)) \notin KIND_EXTENSIONS[item.kind]
            THEN <<"kind_extension">>
            ELSE <<>>
    IN  IF ~item.filename.present
        THEN [seen EXCEPT !.threw = TRUE]
        ELSE IF ~relativePathSafe(filename)
        THEN [seen EXCEPT !.errors = @ \o <<"unsafe_path">>]
        ELSE IF filename \notin DOMAIN disk
        THEN [seen EXCEPT !.errors = @ \o kindErrors \o <<"file_missing">>]
        ELSE IF disk[filename] # item.size_bytes
        THEN [seen EXCEPT !.errors = @ \o kindErrors, !.warnings = @ \o <<"size_differs">>]
        ELSE [seen EXCEPT !.errors = @ \o kindErrors]

\* the for loop, lines 135-173; it ends where an exception is thrown
RECURSIVE validateLoop(_, _, _, _)
validateLoop(acc, artifacts, index, disk) ==
    IF index > Len(artifacts) \/ acc.threw
    THEN acc
    ELSE LET item == artifacts[index]
         IN  IF ~item.isObject
             THEN validateLoop([acc EXCEPT !.errors = @ \o <<"not_object">>],
                               artifacts, index + 1, disk)
             ELSE validateLoop(
                      validateItem([acc EXCEPT !.errors = @ \o shapeErrors(item)], item, disk),
                      artifacts, index + 1, disk)

\* validateManifest, lines 97-180.  root: "unparsable", "not_object" or
\* "object"; raw: the root object
validateManifestResult(root, raw, disk) ==
    IF root = "unparsable"
    THEN [NoValidationResult EXCEPT !.errors = <<"read_parse_failed">>]
    ELSE IF root = "not_object"
    THEN [NoValidationResult EXCEPT !.errors = <<"root_not_object">>]
    ELSE LET rootErrors ==
                 (IF raw.version # MANIFEST_VERSION THEN <<"version">> ELSE <<>>)
                 \o (IF ~raw.artifactsIsArray THEN <<"artifacts_not_array">> ELSE <<>>)
             artifacts == IF raw.artifactsIsArray THEN raw.artifacts ELSE <<>>
             acc == validateLoop([errors |-> rootErrors, warnings |-> <<>>,
                                  seenIds |-> {}, seenFiles |-> {}, threw |-> FALSE],
                                 artifacts, 1, disk)
         IN  IF acc.threw
             THEN [NoValidationResult EXCEPT !.threw = TRUE]
             ELSE [threw |-> FALSE, ok |-> acc.errors = <<>>, errors |-> acc.errors,
                   warnings |-> acc.warnings, artifact_count |-> Len(artifacts)]

NoValidation ==
    [asked |-> FALSE, root |-> "object",
     raw |-> [version |-> MANIFEST_VERSION, artifactsIsArray |-> TRUE, artifacts |-> <<>>],
     result |-> NoValidationResult]

\* validateManifest on the manifest
Validate ==
    /\ ~validation.asked
    /\ validation' = [validation EXCEPT
                         !.asked = TRUE,
                         !.result = validateManifestResult(validation.root, validation.raw,
                                                           ValidationDisk)]
    /\ UNCHANGED projectVars
    /\ UNCHANGED <<earlierToolVars, diagram, watcher, startup>>

\* the tools have not run
EarlierToolsIdle ==
    /\ texts = NoTexts
    /\ cleanup = NoCleanup
    /\ agents = NoAgents
    /\ doctor = NoDoctor

LaterToolsIdle ==
    /\ diagram = NoDiagram
    /\ watcher = NoWatcher
    /\ startup = NoStartup
    /\ validation = NoValidation

ToolsIdle ==
    /\ EarlierToolsIdle
    /\ LaterToolsIdle

\* ------------------------------------------------------------- the system
BaseConfig ==
    [api_key |-> "key", oauth_token |-> "", team_id |-> TeamId, project_id |-> "",
     pull_create |-> FALSE, pull_label |-> "", push_label |-> "reffy",
     create_conflicts |-> TRUE]

PullCreateConfig ==
    [BaseConfig EXCEPT !.push_label = "", !.pull_create = TRUE, !.pull_label = "import"]

\* neither LINEAR_API_KEY nor LINEAR_OAUTH_TOKEN is set
NoCredentialConfig == [BaseConfig EXCEPT !.api_key = ""]

\* LINEAR_PULL_CREATE=1 without LINEAR_PULL_LABEL
PullCreateNoLabelConfig == [BaseConfig EXCEPT !.pull_create = TRUE]

Configs == { BaseConfig, PullCreateConfig, NoCredentialConfig, PullCreateNoLabelConfig }

AllLabels == [n \in {"reffy", "import"} |-> 1]

\* the team has no label named like the push label
NoPushLabel == [n \in {"import"} |-> 1]

LabelTables == { AllLabels, NoPushLabel }

\* the configurations and teams the runs are observed under
Setups ==
    { <<BaseConfig, AllLabels>>, <<PullCreateConfig, AllLabels>>,
      <<NoCredentialConfig, AllLabels>>, <<PullCreateNoLabelConfig, AllLabels>>,
      <<BaseConfig, NoPushLabel>> }

Init ==
    /\ clock = 1
    /\ manifest = emptyManifest(1)
    /\ files = <<>>
    /\ uuid = 0
    /\ remote = <<>>
    /\ remoteLabels \in LabelTables
    /\ labelCache = <<>>
    /\ mappingFile = [state |-> "missing", artifacts |-> EmptyMapping]
    /\ config \in Configs
    /\ <<config, remoteLabels>> \in Setups
    /\ run = IdleRun
    /\ result = NoResult
    /\ synced = {}
    /\ envSteps = 0
    /\ runs = 0
    /\ lastPush = "none"
    /\ peer = IdlePeer
    /\ pulledLast = {}
    /\ ToolsIdle

Next ==
    \/ UserCreate \/ UserEdit \/ UserDelete
    \/ RemoteCreate \/ RemoteEdit
    \/ MappingDamage
    \/ PushStart \/ PushItem \/ PushFinish
    \/ PullStart \/ PullItem \/ PullCreateStart \/ PullCreateItem \/ PullFinish
    \/ Cancel

Spec == Init /\ [][Next]_vars


\* ------------------------------------------- push over a populated remote
\* A first push in a repository that already holds artifacts, against a
\* workspace that already holds issues: the store after the users created
\* the artifacts one after the other, the workspace after they created the
\* issues.
RECURSIVE StoreWith(_)
StoreWith(inputs) ==
    IF inputs = <<>>
    THEN [manifest |-> emptyManifest(1), files |-> <<>>, uuid |-> 0]
    ELSE createArtifact(StoreWith(SubSeq(inputs, 1, Len(inputs) - 1)),
                        inputs[Len(inputs)], Len(inputs) + 1).st

RECURSIVE RemoteWith(_, _)
RemoteWith(inputs, since) ==
    IF inputs = <<>> THEN <<>>
    ELSE createIssue(RemoteWith(SubSeq(inputs, 1, Len(inputs) - 1), since),
                     inputs[Len(inputs)], since + Len(inputs))

InitListing ==
    /\ \E arts \in SeqsUpTo(ArtifactInputs, StartArtifacts),
          iss \in SeqsUpTo(IssueInputs, StartIssues) :
          /\ manifest = StoreWith(arts).manifest
          /\ files = StoreWith(arts).files
          /\ uuid = StoreWith(arts).uuid
          /\ remote = RemoteWith(iss, Len(arts) + 1)
          /\ clock = 1 + Len(arts) + Len(iss)
    /\ remoteLabels = AllLabels
    /\ labelCache = <<>>
    /\ mappingFile = [state |-> "missing", artifacts |-> EmptyMapping]
    /\ config \in {BaseConfig, PullCreateConfig}
    /\ run = IdleRun
    /\ result = NoResult
    /\ synced = {}
    /\ envSteps = 0
    /\ runs = 0
    /\ lastPush = "none"
    /\ peer = IdlePeer
    /\ pulledLast = {}
    /\ ToolsIdle

NextListing == PushStart \/ PushItem \/ PushFinish

SpecListing == InitListing /\ [][NextListing]_vars


\* ------------------------------------------------ two engines, one file
\* Two processes of the engine work in the same repository (two CLI calls,
\* or a CLI call next to the server).  Each has its own run, result and
\* label cache; the store, the mapping file and the workspace are shared.
\* Node hands over between them at an await: Yield swaps the process that
\* takes the steps.
Yield ==
    /\ run.kind # "idle" \/ peer.run.kind # "idle"
    /\ run' = peer.run
    /\ result' = peer.result
    /\ labelCache' = peer.labelCache
    /\ peer' = [run |-> run, result |-> result, labelCache |-> labelCache]
    /\ UNCHANGED <<clock, manifest, files, uuid, remote, remoteLabels, mappingFile,
                   config, synced, envSteps, runs, lastPush>>
    /\ UNCHANGED <<toolVars, pulledLast>>

RaceInputs ==
    { NoteInput(<<"a">>, TRUE, <<"x">>, "text/markdown", <<>>),
      NoteInput(<<"A">>, TRUE, <<"y">>, "text/markdown", <<>>) }

\* what an earlier push left for the first artifact of the store: its
\* issue and its entry
RaceSeed(st, now) ==
    LET first == st.manifest.artifacts[1]
        made == pushCreate([IdleRun EXCEPT !.labelIds = 1], <<>>, first, pushTitle(first),
                           artifactDescription(st.files, first), now)
    IN  [remote |-> made.remote,
         mapping |-> pushStamp(made.run, first.id, now).mapping]

InitRace ==
    /\ config = BaseConfig
    /\ remoteLabels = AllLabels
    /\ labelCache = <<>>
    /\ \E arts \in SeqsUpTo(RaceInputs, StartArtifacts), seeded \in BOOLEAN :
          LET st == StoreWith(arts)
              now == Len(arts) + 2
          IN  /\ manifest = st.manifest
              /\ files = st.files
              /\ uuid = st.uuid
              /\ clock = now
              /\ remote = IF seeded THEN RaceSeed(st, now).remote ELSE <<>>
              /\ mappingFile = IF seeded
                               THEN [state |-> "ok", artifacts |-> RaceSeed(st, now).mapping]
                               ELSE [state |-> "missing", artifacts |-> EmptyMapping]
    /\ run = IdleRun
    /\ result = NoResult
    /\ synced = {}
    /\ envSteps = 0
    /\ runs = 0
    /\ lastPush = "none"
    /\ peer = IdlePeer
    /\ pulledLast = {}
    /\ ToolsIdle

NextRace ==
    \/ PushStart \/ PushItem \/ PushFinish
    \/ PullStart \/ PullItem \/ PullFinish
    \/ Yield

SpecRace == InitRace /\ [][NextRace]_vars


\* ------------------------------------------------------- the text functions
\* an empty project in which nothing runs
EmptyProject ==
    /\ clock = 1
    /\ manifest = emptyManifest(1)
    /\ files = <<>>
    /\ uuid = 0
    /\ remote = <<>>
    /\ remoteLabels = AllLabels
    /\ labelCache = <<>>
    /\ mappingFile = [state |-> "missing", artifacts |-> EmptyMapping]
    /\ config = BaseConfig
    /\ run = IdleRun
    /\ result = NoResult
    /\ synced = {}
    /\ envSteps = 0
    /\ runs = 0
    /\ lastPush = "none"
    /\ peer = IdlePeer
    /\ pulledLast = {}

InitText ==
    /\ EmptyProject
    /\ \E lt \in TitleTexts, rt \in TitleTexts, lb \in BodyTexts, rb \in BodyTexts :
          texts = [NoTexts EXCEPT !.left = [title |-> lt, body |-> lb],
                                  !.right = [title |-> rt, body |-> rb]]
    /\ cleanup = NoCleanup
    /\ agents = NoAgents
    /\ doctor = NoDoctor
    /\ LaterToolsIdle

NextText == ComputeKeys

SpecText == InitText /\ [][NextText]_vars


\* -------------------------------------------------- the store and the runs
\* A repository that is in use: artifacts exist, the first may have been
\* pushed before, files may lie in the artifacts directory that the manifest
\* does not list.  The store is used directly and through pull.
StoreInputs ==
    { NoteInput(<<"a">>, TRUE, <<"x">>, "text/markdown", <<>>),
      NoteInput(<<"a">>, TRUE, <<"x">>, "image/png", <<>>) }

InitStore ==
    /\ config = BaseConfig
    /\ remoteLabels = AllLabels
    /\ labelCache = <<>>
    /\ \E arts \in SeqsUpTo(StoreInputs, StartArtifacts), seeded \in BOOLEAN,
          dropped \in {{}, DroppedFiles, DroppedFiles \cup DroppedDirs} :
          LET st == StoreWith(arts)
              now == Len(arts) + 2
          IN  /\ manifest = st.manifest
              /\ files = DropInto(st.files, dropped, now)
              /\ uuid = st.uuid
              /\ clock = now
              /\ remote = IF seeded THEN RaceSeed(st, now).remote ELSE <<>>
              /\ mappingFile = IF seeded
                               THEN [state |-> "ok", artifacts |-> RaceSeed(st, now).mapping]
                               ELSE [state |-> "missing", artifacts |-> EmptyMapping]
    /\ run = IdleRun
    /\ result = NoResult
    /\ synced = {}
    /\ envSteps = 0
    /\ runs = 0
    /\ lastPush = "none"
    /\ peer = IdlePeer
    /\ pulledLast = {}
    /\ ToolsIdle

NextStore ==
    \/ UserCreate \/ UserEdit \/ UserDelete
    \/ DropEntry \/ Reindex
    \/ UserRecordConflict \/ UserConflictCopy
    \/ RemoteEdit
    \/ PullStart \/ PullItem \/ PullFinish

SpecStore == InitStore /\ [][NextStore]_vars


\* --------------------------------------------------- the cleanup tool runs
\* Repositories whose mapping holds entries of conflict artifacts, as older
\* versions of push made them, next to entries of ordinary artifacts.
CleanupInputs ==
    { NoteInput(<<"a">>, TRUE, <<"x">>, "text/markdown", <<>>),
      NoteInput(<<"a">>, TRUE, <<"x">>, "text/markdown", <<StrCapConflictTag>>),
      NoteInput(StrCapConflictName, TRUE, <<"x">>, "text/markdown", <<>>) }

\* one issue and one entry for each artifact of the store that is in mapped
RECURSIVE CleanupSeed(_, _, _, _)
CleanupSeed(st, mapped, k, now) ==
    IF k = 0 THEN [remote |-> <<>>, mapping |-> EmptyMapping]
    ELSE LET before == CleanupSeed(st, mapped, k - 1, now)
             artifact == st.manifest.artifacts[k]
             made == pushCreate([IdleRun EXCEPT !.labelIds = 1, !.mapping = before.mapping],
                                before.remote, artifact, pushTitle(artifact),
                                artifactDescription(st.files, artifact), now)
         IN  IF k \in mapped
             THEN [remote |-> made.remote,
                   mapping |-> pushStamp(made.run, artifact.id, now).mapping]
             ELSE before

InitCleanup ==
    /\ remoteLabels = AllLabels
    /\ labelCache = <<>>
    /\ config \in {BaseConfig, NoCredentialConfig}
    /\ \E arts \in SeqsUpTo(CleanupInputs, StartArtifacts),
          mapped \in SUBSET (1..StartArtifacts),
          blank \in BOOLEAN,
          state \in {"ok", "invalid"} :
          LET st == StoreWith(arts)
              now == Len(arts) + 2
              seed == CleanupSeed(st, mapped \cap (1..Len(arts)), Len(arts), now)
          IN  /\ mapped \subseteq 1..Len(arts)
              /\ blank => Len(arts) > 0 /\ 1 \notin mapped
              /\ manifest = st.manifest
              /\ files = st.files
              /\ uuid = st.uuid
              /\ clock = now
              /\ remote = seed.remote
              /\ mappingFile = [state |-> state,
                                artifacts |-> IF blank
                                              THEN Append(seed.mapping, BlankEntry(1))
                                              ELSE seed.mapping]
    /\ run = IdleRun
    /\ result = NoResult
    /\ synced = {}
    /\ envSteps = 0
    /\ runs = 0
    /\ lastPush = "none"
    /\ peer = IdlePeer
    /\ pulledLast = {}
    /\ ToolsIdle

NextCleanup == Cleanup

SpecCleanup == InitCleanup /\ [][NextCleanup]_vars

\* ---------------------------------------------------------- reffy init runs
InitAgentsFile ==
    /\ EmptyProject
    /\ texts = NoTexts
    /\ cleanup = NoCleanup
    /\ \E content \in SeqsUpTo(AgentsSymbols, MaxAgentsLen) :
          agents = [NoAgents EXCEPT !.content = content]
    /\ doctor = NoDoctor
    /\ LaterToolsIdle

NextAgents == InitAgents

SpecAgents == InitAgentsFile /\ [][NextAgents]_vars

\* --------------------------------------------------------- reffy doctor runs
\* createArtifact names every file .md, so the file of an image made by it
\* does not have an extension of its kind
DoctorInputs ==
    { NoteInput(<<"a">>, TRUE, <<"x">>, "text/markdown", <<>>),
      NoteInput(<<"a">>, FALSE, <<>>, "text/markdown", <<>>),
      NoteInput(<<"a">>, TRUE, <<"x">>, "image/png", <<>>) }

InitDoctor ==
    /\ remoteLabels = AllLabels
    /\ labelCache = <<>>
    /\ config = BaseConfig
    /\ \E arts \in {<<>>} \cup SeqsUpTo(DoctorInputs, StartArtifacts),
          legacy \in BOOLEAN, layout \in Layouts, openspec \in BOOLEAN :
          LET st == StoreWith(arts)
          IN  /\ manifest = IF legacy THEN [st.manifest EXCEPT !.version = 0] ELSE st.manifest
              /\ files = IF layout.artifactsDir THEN st.files ELSE <<>>
              /\ uuid = st.uuid
              /\ clock = Len(arts) + 2
              /\ doctor = [NoDoctor EXCEPT !.layout = layout, !.openspec = openspec]
    /\ remote = <<>>
    /\ mappingFile = [state |-> "missing", artifacts |-> EmptyMapping]
    /\ run = IdleRun
    /\ result = NoResult
    /\ synced = {}
    /\ envSteps = 0
    /\ runs = 0
    /\ lastPush = "none"
    /\ peer = IdlePeer
    /\ pulledLast = {}
    /\ texts = NoTexts
    /\ cleanup = NoCleanup
    /\ agents = NoAgents
    /\ LaterToolsIdle

NextDoctor == RunDoctor

SpecDoctor == InitDoctor /\ [][NextDoctor]_vars

\* ------------------------------------------------------ diagram render runs
InitDiagram ==
    /\ EmptyProject
    /\ EarlierToolsIdle
    /\ \E specText \in {<<>>} \cup SeqsUpTo(LineKinds, MaxLines) :
          diagram = [NoDiagram EXCEPT !.specText = specText]
    /\ watcher = NoWatcher
    /\ startup = NoStartup
    /\ validation = NoValidation

NextDiagram == RenderDiagram

SpecDiagram == InitDiagram /\ [][NextDiagram]_vars

\* ------------------------------------------------------ store operation runs
\* createArtifact with and without content
StoreOpInputs ==
    { NoteInput(<<"a">>, TRUE, <<"x">>, "text/markdown", <<>>),
      NoteInput(<<"a">>, FALSE, <<>>, "text/markdown", <<>>),
      NoteInput(<<"A">>, TRUE, <<"y">>, "text/markdown", <<>>),
      NoteInput(<<"A">>, FALSE, <<>>, "text/markdown", <<>>),
      NoteInput(<<"b">>, TRUE, <<"x">>, "image/png", <<>>),
      NoteInput(<<"b">>, FALSE, <<>>, "text/markdown", <<>>) }

StoreCreate ==
    /\ EnvStep
    /\ UNCHANGED pulledLast
    /\ \E input \in StoreOpInputs :
         LET made == createArtifact(Store, input, clock + 1)
         IN  /\ manifest' = made.st.manifest
             /\ files' = made.st.files
             /\ uuid' = made.st.uuid
    /\ lastPush' = "none"
    /\ UNCHANGED remote

InitStoreOps ==
    /\ EmptyProject
    /\ ToolsIdle

\* the operations of the store, one after another, from an empty manifest
NextStoreOps ==
    \/ StoreCreate \/ UserEdit \/ UserDelete \/ UserConflictCopy
    \/ DropEntry \/ Reindex

SpecStoreOps == InitStoreOps /\ [][NextStoreOps]_vars

\* --------------------------------------------------- manifest validation runs
\* entries of every sort: well formed ones, one whose size differs from
\* the file's, entries without filename, without id, with an unsafe path,
\* with an extension that does not fit the kind, without file
ValidationItems ==
    { RawItem(Present(<<"1">>), Present(<<"a",".","m","d">>), "note", 1),
      RawItem(Present(<<"2">>), Present(<<"b",".","p","n","g">>), "image", 1),
      RawItem(Present(<<"2">>), Present(<<"b",".","p","n","g">>), "image", 5),
      RawItem(Present(<<"2">>), Absent, "note", 1),
      RawItem(Absent, Present(<<"a",".","m","d">>), "note", 1),
      RawItem(Present(<<"2">>), Present(<<".",".","/","a",".","m","d">>), "note", 1),
      RawItem(Present(<<"2">>), Present(<<"a",".","m","d">>), "image", 1),
      RawItem(Present(<<"2">>), Present(<<"c",".","m","d">>), "note", 1),
      NotAnObject }

\* the longest artifacts array
MaxEntries == 2

InitValidation ==
    /\ EmptyProject
    /\ EarlierToolsIdle
    /\ diagram = NoDiagram
    /\ watcher = NoWatcher
    /\ startup = NoStartup
    /\ \/ \E root \in {"unparsable", "not_object"} :
             validation = [NoValidation EXCEPT !.root = root]
       \/ \E version \in {0, MANIFEST_VERSION}, artifactsIsArray \in BOOLEAN,
             artifacts \in {<<>>} \cup SeqsUpTo(ValidationItems, MaxEntries) :
             /\ ~artifactsIsArray => artifacts = <<>>
             /\ validation = [NoValidation EXCEPT
                                 !.raw = [version |-> version,
                                          artifactsIsArray |-> artifactsIsArray,
                                          artifacts |-> artifacts]]

NextValidation == Validate

SpecValidation == InitValidation /\ [][NextValidation]_vars

\* ---------------------------------------------------- store construction runs
InitStartup ==
    /\ EmptyProject
    /\ EarlierToolsIdle
    /\ diagram = NoDiagram
    /\ watcher = NoWatcher
    /\ \/ startup = NoStartup
       \/ \E arts \in {<<>>} \cup SeqsUpTo(StartupInputs, StartArtifacts) :
             startup = [NoStartup EXCEPT !.manifestFile = "present",
                                         !.hadManifest = TRUE,
                                         !.st = StoreWith(arts)]
    /\ validation = NoValidation

NextStartup ==
    \/ Construct \/ AccessSettles \/ WriteEmptyManifest
    \/ CreateRead \/ CreateWrite

SpecStartup == InitStartup /\ [][NextStartup]_vars

\* ------------------------------------------------------------ watcher runs
InitWatcher ==
    /\ EmptyProject
    /\ EarlierToolsIdle
    /\ diagram = NoDiagram
    /\ \E debounceMs \in 0..MaxDebounce :
          watcher = [NoWatcher EXCEPT !.debounceMs = debounceMs]
    /\ startup = NoStartup
    /\ validation = NoValidation

\* a watcher that is started and not stopped
NextWatching == StartWatcher \/ FileEvent \/ Tick \/ TimerFire

SpecWatching == InitWatcher /\ [][NextWatching]_vars

\* time passes and a timer whose delay has run down fires
SpecWatchingLive ==
    InitWatcher /\ [][NextWatching]_vars /\ WF_vars(Tick) /\ WF_vars(TimerFire)

\* a watcher that is started, stopped and started again
NextWatcher ==
    \/ StartWatcher \/ FileEvent \/ LateFileEvent \/ Tick \/ TimerFire
    \/ StopBegin \/ StopEnd

SpecWatcher == InitWatcher /\ [][NextWatcher]_vars

\* ================================================================ claims
\* The run the properties speak about: the one in progress, or else the
\* one whose result was returned last.
CurRun == IF run.kind # "idle" THEN run ELSE result.out
CurKind == IF run.kind # "idle" THEN run.kind ELSE result.kind

\* this step is one iteration of push's loop over the artifacts
IsPushItemStep ==
    /\ run.kind = "push" /\ run.pc = "items" /\ run.i <= Len(run.items)
    /\ run'.kind = "push" /\ run'.i = run.i + 1

CallsOf(r, op) == SelectSeq(r.calls, LAMBDA c : c.op = op)

\* the conflict artifacts, as the specification words them
TaggedConflict(artifact) ==
    \/ \E i \in 1..Len(artifact.tags) : toLowerCase(artifact.tags[i]) = StrConflictTag
    \/ \E i \in 1..(Len(artifact.name) - Len(StrConflictMark) + 1) :
          toLowerCase(SubSeq(artifact.name, i, i + Len(StrConflictMark) - 1)) = StrConflictMark

\* C1 -------------------------------------------------------------------
\* the issues of the remote listing that push may reuse for the artifact it
\* is about to process: eligible by label, claimed by no entry of the
\* in-memory mapping, same fingerprint or same title key
C1_Matching ==
    LET artifact == run.items[run.i]
        title == pushTitle(artifact)
        description == artifactDescription(files, artifact)
    IN  { k \in 1..Len(run.listing) :
            /\ config.push_label = "" \/ config.push_label \in run.listing[k].labels
            /\ run.listing[k].id \notin MappedIssueIds(run.mapping)
            /\ \/ fingerprint(run.listing[k].title, run.listing[k].description)
                     = fingerprint(title, description)
               \/ titleKey(run.listing[k].title) = titleKey(title) }

\* C1: when push processes an artifact without mapping entry and the remote
\* listing holds an eligible, unclaimed issue with the same fingerprint or
\* title key, the artifact is mapped to such an issue, counted as reused,
\* and no issue is created.
C1_ReuseNotCreate ==
    [][ ( /\ IsPushItemStep
          /\ ~TaggedConflict(run.items[run.i])
          /\ ~HasIssue(run.mapping, run.items[run.i].id)
          /\ C1_Matching # {} )
        => ( /\ HasIssue(run'.mapping, run.items[run.i].id)
             /\ \E k \in C1_Matching :
                   EntryOf(run'.mapping, run.items[run.i].id).issue_id = run.listing[k].id
             /\ run'.reused = run.reused + 1
             /\ run'.created = run.created
             /\ CallsOf(run', "createIssue") = CallsOf(run, "createIssue")
             /\ Len(remote') = Len(remote) ) ]_vars

C1_Witness ==
    /\ run.kind = "push"
    /\ \E k \in 1..Len(run.log) : run.log[k].action = "reuse" /\ run.log[k].match = "title"

\* C2 -------------------------------------------------------------------
\* this step is one iteration of pull's loop over the mapping entries
IsPullItemStep ==
    /\ run.kind = "pull" /\ run.pc = "items" /\ run.i <= Len(run.items)
    /\ run'.kind = "pull" /\ run'.i = run.i + 1

\* the position in a list of artifacts of the one with the given id, 0 if none
PositionOf(artifacts, artifactId) ==
    IF \E k \in 1..Len(artifacts) : artifacts[k].id = artifactId
    THEN CHOOSE k \in 1..Len(artifacts) : artifacts[k].id = artifactId
    ELSE 0

\* the entry pull is about to process names an issue that is fetched, its
\* artifact is in the manifest with its file, the file differs from the
\* issue's description and the artifact was updated after both stamps
C2_LocalEdit ==
    LET artifactId == run.items[run.i]
        entry == EntryOf(run.mapping, artifactId)
        k == PositionOf(manifest.artifacts, artifactId)
    IN  /\ entry.issue_id # Undef
        /\ \E j \in 1..Len(remote) : remote[j].id = entry.issue_id
        /\ run'.errors = run.errors
        /\ k # 0
        /\ manifest.artifacts[k].filename \in DOMAIN files
        /\ files[manifest.artifacts[k].filename].content
              # remote[CHOOSE j \in 1..Len(remote) : remote[j].id = entry.issue_id].description
        /\ manifest.artifacts[k].updated_at > entry.last_pulled_at
        /\ manifest.artifacts[k].updated_at > entry.last_pushed_at

\* what the step leaves behind: one more artifact, the copy, one more
\* conflict record, and the original overwritten with the remote text
C2_CopyRecordOverwrite ==
    LET artifactId == run.items[run.i]
        entry == EntryOf(run.mapping, artifactId)
        issue == remote[CHOOSE j \in 1..Len(remote) : remote[j].id = entry.issue_id]
        n == Len(manifest.artifacts)
        k == PositionOf(manifest.artifacts, artifactId)
        before == manifest.artifacts[k]
        copy == manifest'.artifacts[n + 1]
        after == manifest'.artifacts[k]
        m == Len(manifest.conflicts)
    IN  /\ Len(manifest'.artifacts) = n + 1
        /\ \A q \in 1..n : manifest'.artifacts[q].id = manifest.artifacts[q].id
        /\ \A q \in 1..n : manifest.artifacts[q].id # copy.id
        /\ \E t \in 1..Len(copy.tags) : copy.tags[t] = StrConflictTag
        /\ copy.name = before.name \o <<" ", "(", "c", "o", "n", "f", "l", "i", "c", "t", ")">>
        /\ copy.filename \in DOMAIN files'
        /\ copy.filename # before.filename
        /\ files'[copy.filename].content = files[before.filename].content
        /\ Len(manifest'.conflicts) = m + 1
        /\ SubSeq(manifest'.conflicts, 1, m) = manifest.conflicts
        /\ manifest'.conflicts[m + 1].artifact_id = artifactId
        /\ manifest'.conflicts[m + 1].conflict_artifact_id = copy.id
        /\ after.name = issue.title
        /\ files'[after.filename].content = issue.description

\* C2: with conflict copies enabled, a pull step for a mapped artifact that
\* exists locally, differs from the remote description and was updated after
\* the later of the entry's two stamps creates exactly one artifact tagged
\* "conflict", named "<name> (conflict)" and holding the local content,
\* appends exactly one conflict record naming the original and the copy, and
\* still overwrites the original's name and content with the remote ones.
C2_ConflictCopyOnPull ==
    [][ (IsPullItemStep /\ config.create_conflicts /\ C2_LocalEdit)
        => C2_CopyRecordOverwrite ]_vars

C2_Witness ==
    /\ run.kind = "pull"
    /\ config.create_conflicts
    /\ \E k \in 1..Len(run.log) :
          /\ run.log[k].action = "updated"
          /\ run.log[k].conflict
          /\ run.log[k].hadFile
          /\ run.log[k].before # run.log[k].description
          /\ run.log[k].copy_id # Undef

\* C3 -------------------------------------------------------------------
\* C3: with conflict copies enabled, whenever a pull run overwrote the
\* content of a local artifact with a different remote description, that
\* content had been sent to the issue by a push or received from it by a
\* pull before, or a conflict copy made in the same run holds it.
C3_NoLocalEditLost ==
    (CurKind = "pull" /\ config.create_conflicts)
    => \A k \in 1..Len(CurRun.log) :
          LET item == CurRun.log[k]
          IN  ( /\ item.action = "updated"
                /\ item.hadFile
                /\ item.before # item.description )
              => \/ <<item.issue_id, item.before>> \in synced
                 \/ /\ item.copy_id # Undef
                    /\ \E q \in 1..Len(manifest.artifacts) :
                          /\ manifest.artifacts[q].id = item.copy_id
                          /\ manifest.artifacts[q].filename \in DOMAIN files
                          /\ files[manifest.artifacts[q].filename].content = item.before

\* C4 -------------------------------------------------------------------
\* C4: when push replaces the description of an issue that was changed on
\* the remote after the entry's last push and last pull, by a local text
\* that differs from it, the step records the divergence: an error, a
\* warning or a conflict record.
C4_RemoteEditNotOverwritten ==
    [][ ( /\ IsPushItemStep
          /\ HasIssue(run.mapping, run.items[run.i].id)
          /\ \E j \in 1..Len(remote) :
                LET entry == EntryOf(run.mapping, run.items[run.i].id)
                IN  /\ remote[j].id = entry.issue_id
                    /\ remote[j].updated_at > entry.last_pushed_at
                    /\ remote[j].updated_at > entry.last_pulled_at
                    /\ remote'[j].description # remote[j].description )
        => ( \/ run'.errors # run.errors
             \/ run'.warnings # run.warnings
             \/ manifest'.conflicts # manifest.conflicts ) ]_vars

\* C5 -------------------------------------------------------------------
NoSharedIssue(mapping) ==
    \A a, b \in 1..Len(mapping) :
        (a # b /\ mapping[a].issue_id # Undef) => mapping[a].issue_id # mapping[b].issue_id

\* C5: no two entries of the mapping file hold the same issue id, and at no
\* point of a push or pull run do two entries of the in-memory mapping hold
\* the same issue id.
C5_NoSharedIssueId ==
    /\ NoSharedIssue(mappingFile.artifacts)
    /\ NoSharedIssue(run.mapping)

\* push created an issue for an artifact although the listing held an
\* eligible issue with the artifact's title key, claimed by another entry
C5_Witness ==
    /\ run.kind = "push"
    /\ \E k \in 1..Len(run.log), j \in 1..Len(run.issues) :
          /\ run.log[k].action = "create"
          /\ ~run.log[k].failed
          /\ titleKey(run.issues[j].title) = titleKey(run.log[k].title)
          /\ \E e \in 1..Len(run.mapping) :
                /\ run.mapping[e].issue_id = run.issues[j].id
                /\ run.mapping[e].artifact_id # run.log[k].artifact_id

\* C6 -------------------------------------------------------------------
\* every artifact of the run resolved through its entry (or was skipped as
\* a conflict artifact): no reuse, no create, not even a failed one
ResolvedThroughEntries(r) ==
    /\ r.created = 0
    /\ CallsOf(r, "createIssue") = <<>>
    /\ \A k \in 1..Len(r.log) : r.log[k].action \in {"update", "skipped_conflict"}

C7_ConflictSkipped ==
    [][ (IsPushItemStep /\ TaggedConflict(run.items[run.i]))
        => ( /\ run'.skippedConflict = run.skippedConflict + 1
             /\ run'.created = run.created
             /\ run'.updated = run.updated
             /\ run'.reused = run.reused
             /\ run'.skipped = run.skipped
             /\ run'.calls = run.calls
             /\ run'.mapping = run.mapping
             /\ remote' = remote ) ]_vars

C7_Witness ==
    /\ run.kind = "push"
    /\ \E k \in 1..Len(run.log) :
          /\ run.log[k].action = "skipped_conflict"
          /\ \E i \in 1..Len(run.items) :
                /\ run.items[i].id = run.log[k].artifact_id
                /\ run.items[i].name = StrCapConflictName

\* C8 -------------------------------------------------------------------
\* the items of the run's loop over artifacts (push) or entries (pull)
LoopLog(r) ==
    SelectSeq(r.log, LAMBDA item : item.action \notin {"reconciled", "imported"})

ErrorsFor(r, artifactId) == { e \in 1..Len(r.errors) : r.errors[e] = artifactId }

EntriesFor(file, artifactId) ==
    { e \in 1..Len(file.artifacts) : file.artifacts[e].artifact_id = artifactId }

\* a finished run went through all its items, holds one error for each item
\* that failed and none for the others, and the mapping file holds the
\* association and the fresh stamp of every item that did not fail
C8_Finished ==
    (result.kind \in {"push", "pull"} /\ result.status = "ok")
    => LET out == result.out
       IN  /\ Len(LoopLog(out)) = Len(out.items)
           /\ \A k \in 1..Len(out.log) :
                 LET item == out.log[k]
                 IN  /\ Cardinality(ErrorsFor(out, item.artifact_id))
                          = IF item.failed THEN 1 ELSE 0
                     /\ (~item.failed /\ item.action \in {"update", "reuse", "create"})
                        => \E e \in EntriesFor(mappingFile, item.artifact_id) :
                              /\ mappingFile.artifacts[e].issue_id = item.issue_id
                              /\ mappingFile.artifacts[e].last_pushed_at = clock
                     /\ (~item.failed /\ item.action = "updated")
                        => \E e \in EntriesFor(mappingFile, item.artifact_id) :
                              /\ mappingFile.artifacts[e].issue_id = item.issue_id
                              /\ mappingFile.artifacts[e].last_pulled_at = clock

\* a loop iteration that is not interrupted from outside moves on to the
\* next item, whether its remote call failed or not
C8_Continues ==
    ( /\ run.kind \in {"push", "pull"} /\ run.pc = "items" /\ run.i <= Len(run.items)
      /\ run' # run
      /\ result'.status # "cancelled" )
    => ( /\ run'.kind = run.kind
         /\ run'.i = run.i + 1
         /\ Len(run'.errors) <= Len(run.errors) + 1 )

\* C8: when the remote call of one item of a push or pull run fails, the
\* run goes on with the next item and finishes with status "ok", holds
\* exactly one error keyed by the artifact id of the failed item, and the
\* mapping it writes holds the associations and refreshed stamps of the
\* other items.
C8_FailureIsolated == [] C8_Finished /\ [][C8_Continues]_vars

C8_Witness ==
    /\ result.kind \in {"push", "pull"} /\ result.status = "ok"
    /\ Len(result.out.errors) = 1
    /\ \E k, q \in 1..Len(result.out.log) :
          /\ result.out.log[k].failed
          /\ ~result.out.log[q].failed
          /\ result.out.log[q].action \in {"update", "reuse", "create", "updated"}

\* C9 -------------------------------------------------------------------
\* C9: after a push run that finished without per-item error, every
\* non-conflict artifact has an entry in the mapping file, and the issue
\* the entry names carries the title and the description push computed
\* for the artifact.
C9_RemoteMatchesAfterCleanPush ==
    (result.kind = "push" /\ result.status = "ok" /\ result.out.errors = <<>>)
    => \A k \in 1..Len(result.out.items) :
          LET artifact == result.out.items[k]
          IN  ~TaggedConflict(artifact)
              => \E e \in EntriesFor(mappingFile, artifact.id), j \in 1..Len(remote) :
                    /\ mappingFile.artifacts[e].issue_id = remote[j].id
                    /\ remote[j].title = pushTitle(artifact)
                    /\ remote[j].description = artifactDescription(files, artifact)

\* C10 ------------------------------------------------------------------
\* while a run is in progress it has read the mapping file once, has not
\* written it, and the file is what it was when the run started
C10_UntouchedDuringRun ==
    run.kind # "idle"
    => (mappingFile = run.atStart /\ run.reads = 1 /\ run.writes = 0)

\* a run changes the mapping file only in the step that ends it normally,
\* after the last item
C10_WrittenAtEnd ==
    (run.kind # "idle" /\ mappingFile' # mappingFile)
    => ( /\ run.kind \in {"push", "pull"} /\ run'.kind = "idle"
         /\ result'.status = "ok"
         /\ result'.out.writes = 1
         /\ run.i > Len(run.items)
         /\ run.pc = "create" => run.j > Len(run.issues) )

\* a run stopped before its end leaves the file as it was at run start
C10_CancelWritesNothing ==
    (run.kind # "idle" /\ result'.status = "cancelled")
    => (mappingFile' = mappingFile /\ mappingFile' = run.atStart)

\* C10: a push or pull run reads the mapping file once at its start and
\* writes it at most once, in its last step after all items; until then
\* the file equals its content at run start, so a cancelled run leaves it
\* unchanged.
C10_MappingWrittenOnceAtEnd ==
    /\ [] C10_UntouchedDuringRun
    /\ [][C10_WrittenAtEnd]_vars
    /\ [][C10_CancelWritesNothing]_vars

\* a run was cancelled with associations in memory that the file lacks
C10_Witness ==
    /\ result.status = "cancelled"
    /\ result.out.mapping # readMapping(mappingFile)
    /\ result.out.atStart = mappingFile

\* C11 ------------------------------------------------------------------
\* what a push step leaves behind for an artifact whose entry names an
\* issue: the entry keeps the issue, nothing is matched, claimed or created;
\* unless the step failed, one update-issue call went to that issue with the
\* artifact's title and body and the entry holds the issue's short code
C11_UpdatedInPlace ==
    LET artifact == run.items[run.i]
        before == EntryOf(run.mapping, artifact.id)
        after == EntryOf(run'.mapping, artifact.id)
    IN  /\ HasIssue(run'.mapping, artifact.id)
        /\ after.issue_id = before.issue_id
        /\ run'.usedIssueIds = run.usedIssueIds
        /\ run'.reused = run.reused
        /\ run'.created = run.created
        /\ CallsOf(run', "createIssue") = CallsOf(run, "createIssue")
        /\ Len(remote') = Len(remote)
        /\ Len(CallsOf(run', "updateIssue")) <= Len(CallsOf(run, "updateIssue")) + 1
        /\ run'.errors = run.errors
           => /\ CallsOf(run', "updateIssue")
                   = Append(CallsOf(run, "updateIssue"),
                            [op |-> "updateIssue", artifact_id |-> artifact.id,
                             issue_id |-> before.issue_id])
              /\ run'.updated = run.updated + 1
              /\ \E j \in 1..Len(remote') :
                    /\ remote'[j].id = before.issue_id
                    /\ remote'[j].title = pushTitle(artifact)
                    /\ remote'[j].description = artifactDescription(files, artifact)
                    /\ after.issue_identifier = remote'[j].identifier

\* C11: a push step for an artifact whose mapping entry holds an issue id
\* makes exactly one update-issue call on that id with the artifact's
\* current title and body, matches and creates nothing, and sets the
\* entry's short code to the one the update returned.
C11_MappedArtifactUpdated ==
    [][ ( /\ IsPushItemStep
          /\ ~TaggedConflict(run.items[run.i])
          /\ HasIssue(run.mapping, run.items[run.i].id) )
        => C11_UpdatedInPlace ]_vars

\* an artifact was updated through its entry although the listing held an
\* unclaimed issue with the same title
C11_Witness ==
    /\ run.kind = "push"
    /\ \E k \in 1..Len(run.log), j \in 1..Len(run.issues) :
          /\ run.log[k].action = "update"
          /\ ~run.log[k].failed
          /\ titleKey(run.issues[j].title) = titleKey(run.log[k].title)
          /\ run.issues[j].id \notin run.usedIssueIds

\* C12 ------------------------------------------------------------------
\* the positions in the remote listing of the issues push may reuse for the
\* artifact it is about to process: by fingerprint, by title key
C12_Unclaimed(k) ==
    /\ config.push_label = "" \/ config.push_label \in run.listing[k].labels
    /\ run.listing[k].id \notin MappedIssueIds(run.mapping)

C12_ByFingerprint ==
    { k \in 1..Len(run.listing) :
        /\ C12_Unclaimed(k)
        /\ fingerprint(run.listing[k].title, run.listing[k].description)
              = fingerprint(pushTitle(run.items[run.i]),
                            artifactDescription(files, run.items[run.i])) }

C12_ByTitle ==
    { k \in 1..Len(run.listing) :
        /\ C12_Unclaimed(k)
        /\ titleKey(run.listing[k].title) = titleKey(pushTitle(run.items[run.i])) }

Lowest(S) == CHOOSE k \in S : \A q \in S : k <= q

\* C12: for an artifact without entry push takes the earliest unclaimed
\* eligible issue of the listing with the artifact's fingerprint, and when
\* there is none the earliest one with its title key; the association is a
\* function of the artifacts, the mapping and the listing.
C12_FirstUnclaimedMatch ==
    [][ ( /\ IsPushItemStep
          /\ ~TaggedConflict(run.items[run.i])
          /\ ~HasIssue(run.mapping, run.items[run.i].id)
          /\ C12_ByFingerprint \cup C12_ByTitle # {} )
        => EntryOf(run'.mapping, run.items[run.i].id).issue_id
             = run.listing[IF C12_ByFingerprint # {} THEN Lowest(C12_ByFingerprint)
                           ELSE Lowest(C12_ByTitle)].id ]_vars

\* the second issue of the listing was taken for its fingerprint although
\* the first, still unclaimed, has the artifact's title
C12_Witness ==
    /\ run.kind = "push"
    /\ Len(run.listing) >= 2
    /\ \E k \in 1..Len(run.log) :
          /\ run.log[k].action = "reuse"
          /\ run.log[k].match = "fingerprint"
          /\ run.log[k].issue_id = run.listing[2].id
          /\ titleKey(run.listing[1].title) = titleKey(run.log[k].title)
          /\ config.push_label = "" \/ config.push_label \in run.listing[1].labels
          /\ run.listing[1].id \notin run.usedIssueIds

\* two issues with the artifact's fingerprint were unclaimed and the first
\* of the listing was taken
C12_WitnessOrder ==
    /\ run.kind = "push"
    /\ Len(run.listing) >= 2
    /\ fingerprint(run.listing[1].title, run.listing[1].description)
          = fingerprint(run.listing[2].title, run.listing[2].description)
    /\ \E k \in 1..Len(run.log) :
          /\ run.log[k].action = "reuse"
          /\ run.log[k].match = "fingerprint"
          /\ run.log[k].issue_id = run.listing[1].id
          /\ run.listing[2].id \notin run.usedIssueIds
          /\ config.push_label = "" \/ config.push_label \in run.listing[2].labels

\* C13 ------------------------------------------------------------------
\* this step is one iteration of pull-create's loop over the listed issues
IsPullCreateStep ==
    /\ run.kind = "pull" /\ run.pc = "create" /\ run.j <= Len(run.issues)
    /\ run'.kind = "pull" /\ run'.j = run.j + 1

\* the local artifacts pull-create may reconcile the issue onto: not a
\* conflict artifact, no mapping entry, same fingerprint or same title key
C13_Matching(issue) ==
    { k \in 1..Len(manifest.artifacts) :
        LET artifact == manifest.artifacts[k]
        IN  /\ ~TaggedConflict(artifact)
            /\ \A e \in 1..Len(run.mapping) : run.mapping[e].artifact_id # artifact.id
            /\ \/ fingerprint(artifact.name, artifactDescription(files, artifact))
                     = fingerprint(issue.title, issue.description)
               \/ titleKey(artifact.name) = titleKey(issue.title) }

\* C13: when pull-create reaches an issue that carries the import label and
\* that no entry names, and a local non-conflict artifact without entry has
\* the issue's fingerprint or title key, the step maps such an artifact to
\* the issue, counts it as reconciled and creates no artifact.
C13_ReconcileNotImport ==
    [][ ( /\ IsPullCreateStep
          /\ config.pull_label \in run.issues[run.j].labels
          /\ run.issues[run.j].id \notin MappedIssueIds(run.mapping)
          /\ C13_Matching(run.issues[run.j]) # {} )
        => ( /\ \E k \in C13_Matching(run.issues[run.j]) :
                   /\ HasIssue(run'.mapping, manifest.artifacts[k].id)
                   /\ EntryOf(run'.mapping, manifest.artifacts[k].id).issue_id
                         = run.issues[run.j].id
             /\ Len(run'.mapping) = Len(run.mapping) + 1
             /\ run'.reconciled = run.reconciled + 1
             /\ manifest' = manifest
             /\ files' = files ) ]_vars

\* an artifact was reconciled onto an issue whose description differs from
\* the artifact's content: a match by title only
C13_Witness ==
    /\ run.kind = "pull"
    /\ \E k \in 1..Len(run.log), q \in 1..Len(manifest.artifacts), j \in 1..Len(remote) :
          /\ run.log[k].action = "reconciled"
          /\ manifest.artifacts[q].id = run.log[k].artifact_id
          /\ remote[j].id = run.log[k].issue_id
          /\ manifest.artifacts[q].filename \in DOMAIN files
          /\ files[manifest.artifacts[q].filename].content # remote[j].description

\* C14 ------------------------------------------------------------------
\* C14: a pull-create step that creates a local artifact never gives it the
\* title key of a non-conflict artifact that is in the manifest at that
\* moment, be it mapped or not, be it imported earlier in the same run.
C14_NoDuplicateTitleImported ==
    [][ (IsPullCreateStep /\ Len(manifest'.artifacts) = Len(manifest.artifacts) + 1)
        => \A k \in 1..Len(manifest.artifacts) :
              TaggedConflict(manifest.artifacts[k])
              \/ titleKey(manifest.artifacts[k].name)
                    # titleKey(manifest'.artifacts[Len(manifest.artifacts) + 1].name) ]_vars

\* C15 ------------------------------------------------------------------
\* C15: without API key and without bearer token, starting a push or a pull
\* returns status "error" at once: no run begins, no remote call is made,
\* the mapping file is neither read nor written and the store, the
\* workspace and the label cache stay as they are.
C15_NoCredentialFailsFast ==
    [][ (runs' = runs + 1 /\ config.api_key = "" /\ config.oauth_token = "")
        => ( /\ result'.kind \in {"push", "pull"}
             /\ result'.status = "error"
             /\ run.kind = "idle" /\ run' = run
             /\ result'.out.calls = <<>>
             /\ result'.out.reads = 0
             /\ result'.out.writes = 0
             /\ mappingFile' = mappingFile
             /\ manifest' = manifest /\ files' = files /\ uuid' = uuid
             /\ remote' = remote
             /\ labelCache' = labelCache ) ]_vars

\* a pull was refused although an artifact and an issue were there
C15_Witness ==
    /\ config.api_key = "" /\ config.oauth_token = ""
    /\ result.kind = "pull" /\ result.status = "error"
    /\ Len(manifest.artifacts) > 0
    /\ Len(remote) > 0

\* C16 ------------------------------------------------------------------
\* C16: with pull-create enabled and no import label configured, a pull
\* makes no remote call, changes no artifact and no mapping entry, and does
\* not end with status "ok".
C16_PullCreateWithoutLabelFails ==
    (config.pull_create /\ config.pull_label = "" /\ CurKind = "pull")
    => ( /\ CurRun.calls = <<>>
         /\ CurRun.updated = 0
         /\ CurRun.mapping = readMapping(CurRun.atStart)
         /\ result.status # "ok" )

\* C17 ------------------------------------------------------------------
\* some remote call of the run threw: the listing or the call of an item
SomeCallFailed(r) ==
    r.listFailed \/ \E k \in 1..Len(r.log) : r.log[k].failed

\* C17: a run ends with status "ok" when only some of its remote calls
\* fail; a run in which a remote call failed and none completed does not
\* end with status "ok".
C17_TotalFailureNotOk ==
    ( /\ result.kind \in {"push", "pull"}
      /\ result.status = "ok"
      /\ SomeCallFailed(result.out) )
    => result.out.calls # <<>>

\* C18 ------------------------------------------------------------------
\* the run is a push whose configured label name resolved to no id
C18_Unresolved(r) ==
    r.kind = "push" /\ config.push_label # "" /\ r.labelIds = Undef

C18_FailedItems(r) == { k \in 1..Len(r.log) : r.log[k].failed }

\* one warning, no error besides those of failed items, the loop is entered,
\* and the run that ends has status "ok" and went through every artifact
C18_WarningOnly ==
    C18_Unresolved(CurRun)
    => ( /\ Len(CurRun.warnings) = 1
         /\ Len(CurRun.errors) = Cardinality(C18_FailedItems(CurRun))
         /\ (run.kind = "push" => run.pc = "items")
         /\ (run.kind = "idle" /\ result.status # "cancelled")
               => ( /\ result.status = "ok"
                    /\ Len(LoopLog(result.out)) = Len(result.out.items) ) )

\* an issue created by such a run carries no label
C18_CreatedUnlabelled ==
    (IsPushItemStep /\ C18_Unresolved(run) /\ Len(remote') > Len(remote))
    => remote'[Len(remote')].labels = {}

\* C18: when the configured push label name resolves to no id, push
\* records exactly one warning and no error for it, ends with status "ok"
\* after going through every artifact, and creates its issues without label.
C18_UnresolvedLabelIsWarning ==
    []C18_WarningOnly /\ [][C18_CreatedUnlabelled]_vars

\* a push with an unresolved label ended "ok" after creating an issue
C18_Witness ==
    /\ run.kind = "idle"
    /\ result.status = "ok"
    /\ C18_Unresolved(result.out)
    /\ result.out.errors = <<>>
    /\ result.out.created > 0
    /\ \A k \in 1..Len(result.out.createdIssueIds) :
          remote[result.out.createdIssueIds[k]].labels = {}

\* C19 ------------------------------------------------------------------
\* the run is a push that found the mapping file missing or damaged
C19_NoMappingAtStart(r) ==
    r.kind = "push" /\ r.atStart.state \in DamagedStates

\* such a run holds no entry but those of the artifacts it has handled, takes
\* the create-or-reuse path for every artifact that is not a conflict
\* artifact, and records no error but those of failed items
C19_FirstTimeSync ==
    C19_NoMappingAtStart(CurRun)
    => LET r == CurRun
       IN  /\ r.reads = 1
           /\ \A e \in 1..Len(r.mapping) :
                 \E k \in 1..Len(r.log) : r.log[k].artifact_id = r.mapping[e].artifact_id
           /\ \A k \in 1..Len(r.log) :
                 /\ r.log[k].artifact_id = r.items[k].id
                 /\ IF TaggedConflict(r.items[k])
                    THEN r.log[k].action = "skipped_conflict"
                    ELSE r.log[k].action \in {"create", "reuse"}
           /\ Len(r.errors) = Cardinality({ k \in 1..Len(r.log) : r.log[k].failed })

\* the end of such a run writes the mapping it built as a well-formed file
C19_WritesWellFormed ==
    (C19_NoMappingAtStart(run) /\ run.i > Len(run.items) /\ run'.kind = "idle"
        /\ result'.status # "cancelled")
    => ( /\ result'.status = "ok"
         /\ mappingFile'.state = "ok"
         /\ mappingFile'.artifacts = run.mapping
         /\ readMapping(mappingFile') = run.mapping )

\* C19: a mapping file that is missing, is not JSON or has no artifacts key
\* reads as the empty mapping and raises no error; the push that follows
\* handles every artifact that is not a conflict artifact through the
\* create-or-reuse path and ends by writing a well-formed mapping file.
C19_DamagedMappingIsEmpty ==
    []C19_FirstTimeSync /\ [][C19_WritesWellFormed]_vars

\* a push found a damaged file that still held entries, associated an
\* artifact anew and wrote a well-formed file
C19_Witness ==
    /\ result.kind = "push" /\ result.status = "ok"
    /\ result.out.atStart.state = "invalid"
    /\ result.out.atStart.artifacts # EmptyMapping
    /\ \E k \in 1..Len(result.out.log) :
          /\ result.out.log[k].action \in {"create", "reuse"}
          /\ ~result.out.log[k].failed
    /\ mappingFile.state = "ok"
    /\ mappingFile.artifacts # EmptyMapping

\* C20 ------------------------------------------------------------------
\* this step is an iteration of pull's loop in which getIssue threw
C20_FetchFailed ==
    /\ IsPullItemStep
    /\ Len(run'.log) = Len(run.log) + 1
    /\ run'.log[Len(run'.log)].failed

\* C20: when the fetch of an entry's issue fails during pull, one error is
\* recorded for that artifact, the mapping entries stay as they are, the
\* store is untouched, no conflict copy is made, and the run goes on with
\* the next entry.
C20_FetchFailureLeavesEntry ==
    [][ C20_FetchFailed
        => ( /\ run'.errors = Append(run.errors, run.items[run.i])
             /\ run'.skipped = run.skipped + 1
             /\ run'.updated = run.updated
             /\ run'.mapping = run.mapping
             /\ EntryOf(run'.mapping, run.items[run.i])
                  = EntryOf(readMapping(run.atStart), run.items[run.i])
             /\ manifest' = manifest /\ files' = files /\ uuid' = uuid
             /\ run'.conflictArtifactIds = run.conflictArtifactIds
             /\ run'.kind = "pull" /\ run'.pc = "items"
             /\ run'.i = run.i + 1
             /\ run'.items = run.items ) ]_vars

\* a pull whose fetch failed for one entry went on and updated a later one
C20_Witness ==
    /\ CurKind = "pull"
    /\ \E j, k \in 1..Len(CurRun.log) :
          /\ j < k
          /\ CurRun.log[j].failed
          /\ CurRun.log[k].action = "updated"
          /\ ~CurRun.log[k].failed

\* C21 ------------------------------------------------------------------
\* this step ends a run normally (and is no hand-over to the other process)
IsFinishStep ==
    /\ run.kind \in {"push", "pull"} /\ run'.kind = "idle" /\ result'.status = "ok"
    /\ peer' = peer

\* the write at the end of a run replaces the whole file by the mapping the
\* run holds in memory, whatever the file held; nothing else changes the file
C21_WholeFileWritten ==
    /\ IsFinishStep
          => (mappingFile'.state = "ok" /\ mappingFile'.artifacts = run.mapping)
    /\ mappingFile' # mappingFile => IsFinishStep

\* both processes have finished a run
C21_BothFinished ==
    /\ run.kind = "idle" /\ result.status = "ok"
    /\ peer.run.kind = "idle" /\ peer.result.status = "ok"

\* the file then holds the final mapping of one of the two runs
C21_OneOfTheTwo ==
    C21_BothFinished
    => mappingFile.artifacts \in {result.out.mapping, peer.result.out.mapping}

\* C21: when two runs overlap on the mapping file, every write replaces the
\* whole file by the in-memory mapping of the run that writes, so the file
\* after both have finished is the final mapping of the run that wrote last
\* and never a merge of the two.
C21_LastWriterWins ==
    []C21_OneOfTheTwo /\ [][C21_WholeFileWritten]_vars

\* the association (artifact, issue) is in the mapping
C21_Holds(mapping, entry) ==
    \E k \in 1..Len(mapping) :
        /\ mapping[k].artifact_id = entry.artifact_id
        /\ mapping[k].issue_id = entry.issue_id

\* two runs read the same file; the one that finished first had made an
\* association that the file read at start lacked, and the file after the
\* second write lacks it too
C21_Witness ==
    /\ C21_BothFinished
    /\ result.out.atStart = peer.result.out.atStart
    /\ mappingFile.artifacts = result.out.mapping
    /\ \E k \in 1..Len(peer.result.out.mapping) :
          LET entry == peer.result.out.mapping[k]
          IN  /\ entry.issue_id # Undef
              /\ ~C21_Holds(readMapping(result.out.atStart), entry)
              /\ ~C21_Holds(mappingFile.artifacts, entry)

\* C22 ------------------------------------------------------------------
\* every entry of the old mapping is in the new one, and an entry that named
\* an issue names the same issue
C22_Kept(old, new) ==
    \A k \in 1..Len(old) :
        /\ HasEntry(new, old[k].artifact_id)
        /\ old[k].issue_id # Undef
              => EntryOf(new, old[k].artifact_id).issue_id = old[k].issue_id

\* a run starts from the entries of the file, keeps them in every step, and
\* writes them back at its end
C22_RunKeepsEntries ==
    /\ (run.kind = "idle" /\ run'.kind # "idle" /\ peer' = peer)
          => C22_Kept(readMapping(mappingFile), run'.mapping)
    /\ (run.kind # "idle" /\ run'.kind = run.kind)
          => C22_Kept(run.mapping, run'.mapping)
    /\ IsFinishStep
          => ( /\ C22_Kept(run.mapping, mappingFile'.artifacts)
               /\ C22_Kept(readMapping(mappingFile), mappingFile'.artifacts) )

\* C22: no push or pull run removes a mapping entry, and no run changes
\* the issue id of an entry that holds one; this includes the entries of
\* artifacts that are gone from the store.
C22_EntriesNeverDeletedOrRebound == [][C22_RunKeepsEntries]_vars

\* a run went over the entry of a deleted artifact, and the file written at
\* its end still holds the entry with its issue
C22_Witness ==
    /\ result.kind \in {"push", "pull"} /\ result.status = "ok"
    /\ \E k \in 1..Len(readMapping(result.out.atStart)) :
          LET entry == readMapping(result.out.atStart)[k]
          IN  /\ entry.issue_id # Undef
              /\ ~HasArtifact(Store, entry.artifact_id)
              /\ C21_Holds(readMapping(mappingFile), entry)
    /\ \E k \in 1..Len(result.out.log) : result.out.log[k].action = "missing"

\* C24 ------------------------------------------------------------------
\* the on-disk signature of the artifact's file
C24_OnDisk(artifact) ==
    [mtime |-> files[getArtifactPath(artifact)].mtime,
     size |-> Len(files[getArtifactPath(artifact)].content)]

C24_Recorded(entry) ==
    [mtime |-> entry.attachment_mtime, size |-> entry.attachment_size]

\* this push step associated a non-markdown artifact, whose file exists,
\* with an issue, and no call of the step failed
C24_BinaryPushed ==
    /\ IsPushItemStep
    /\ ~TaggedConflict(run.items[run.i])
    /\ run.items[run.i].mime_type # "text/markdown"
    /\ FileExists(files, getArtifactPath(run.items[run.i]))
    /\ ~run'.log[Len(run'.log)].failed

\* the step uploads exactly when the signature recorded by the entry (none
\* for a new entry) differs from the on-disk one; afterwards they are equal
C24_UploadIffChanged ==
    C24_BinaryPushed
    => LET artifact == run.items[run.i]
           recordedBefore ==
               IF HasEntry(run.mapping, artifact.id) /\ HasIssue(run.mapping, artifact.id)
               THEN C24_Recorded(EntryOf(run.mapping, artifact.id))
               ELSE [mtime |-> Undef, size |-> Undef]
           uploaded == Len(CallsOf(run', "upload")) = Len(CallsOf(run, "upload")) + 1
           registered == SumAttachments(remote') = SumAttachments(remote) + 1
       IN  /\ uploaded <=> recordedBefore # C24_OnDisk(artifact)
           /\ uploaded <=> registered
           /\ ~uploaded => ( /\ CallsOf(run', "upload") = CallsOf(run, "upload")
                             /\ SumAttachments(remote') = SumAttachments(remote) )
           /\ C24_Recorded(EntryOf(run'.mapping, artifact.id)) = C24_OnDisk(artifact)

\* C24: for an artifact with an issue after association and a content type
\* other than text/markdown, push uploads and registers an attachment
\* exactly when the file's size or modification time differs from the
\* signature in the mapping entry; after the upload the entry holds the
\* on-disk signature, so a push over the unchanged file uploads nothing.
C24_UploadOnSignatureChange == [][C24_UploadIffChanged]_vars

\* a second push went over an image whose file had not changed since the
\* upload of the first push, and uploaded nothing
C24_Witness ==
    /\ result.kind = "push" /\ result.status = "ok"
    /\ CallsOf(result.out, "upload") = <<>>
    /\ \E k \in 1..Len(result.out.log) :
          /\ result.out.log[k].mime_type = "image/png"
          /\ result.out.log[k].action = "update"
          /\ ~result.out.log[k].failed
          /\ EntryOf(readMapping(result.out.atStart),
                     result.out.log[k].artifact_id).attachment_id # Undef

\* C25 ------------------------------------------------------------------
\* this step starts a push that gets past the label lookup
C25_PushStarted ==
    run.kind = "idle" /\ run'.kind = "push" /\ peer' = peer /\ config.push_label # ""

C25_Key == LabelKey(TeamId, config.push_label)

\* a lookup of a cached pair makes no query and returns the cached value; a
\* lookup that queries leaves the answer in the cache, null included; no
\* pair ever leaves the cache
C25_CachedOnce ==
    /\ C25_PushStarted
          => ( /\ C25_Key \in DOMAIN labelCache'
               /\ labelCache'[C25_Key] = run'.labelIds
               /\ IF C25_Key \in DOMAIN labelCache
                  THEN /\ CallsOf(run', "getLabelId") = <<>>
                       /\ labelCache' = labelCache
                  ELSE /\ Len(CallsOf(run', "getLabelId")) = 1
                       /\ labelCache'[C25_Key] = LabelValue(remoteLabels, config.push_label) )
    /\ peer' = peer
          => \A k \in DOMAIN labelCache :
                k \in DOMAIN labelCache' /\ labelCache'[k] = labelCache[k]
    /\ (run.kind # "idle" /\ run'.kind = run.kind)
          => CallsOf(run', "getLabelId") = CallsOf(run, "getLabelId")

\* C25: label lookups are cached per (team, label name): once a lookup of
\* a pair has completed, found or not, the client makes no further label
\* query for the pair.
C25_LabelLookupCached == [][C25_CachedOnce]_vars

\* a second push used the cached negative answer without a query
C25_Witness ==
    /\ runs = 2
    /\ CurKind = "push"
    /\ CurRun.kind = "push"
    /\ config.push_label # ""
    /\ C25_Key \in DOMAIN labelCache
    /\ labelCache[C25_Key] = Undef
    /\ CallsOf(CurRun, "getLabelId") = <<>>
    /\ Len(CurRun.warnings) = 1

\* C23 ------------------------------------------------------------------
\* a title with its case folded, its ends trimmed and every run of
\* whitespace inside it replaced by one space
RECURSIVE C23_Squeeze(_)
C23_Squeeze(s) ==
    IF s = <<>> THEN <<>>
    ELSE IF IsSpace(Head(s)) THEN <<" ">> \o C23_Squeeze(trimStart(s))
    ELSE <<Head(s)>> \o C23_Squeeze(Tail(s))

C23_Canonical(title) == C23_Squeeze(toLowerCase(trim(title)))

\* C23: two titles that differ only in surrounding whitespace, letter case
\* or the length of internal whitespace runs have the same title key, and
\* with equal normalized bodies the same fingerprint.
C23_WhitespaceRunsCollapsed ==
    (texts.asked /\ C23_Canonical(texts.left.title) = C23_Canonical(texts.right.title))
    => ( /\ texts.titleKeys[1] = texts.titleKeys[2]
         /\ normalizeText(texts.left.body) = normalizeText(texts.right.body)
               => texts.fingerprints[1] = texts.fingerprints[2] )

\* ---------------------------------------------------------------- C26
C26_Prefix(a, b) == Len(a) <= Len(b) /\ SubSeq(b, 1, Len(a)) = a

\* C26: conflict records are append-only: whatever the store operation or
\* the run, the conflicts list before a step is a prefix of the list after
\* it; no record is changed or removed, also not when the artifact it
\* references is deleted.
C26_ConflictsAppendOnly ==
    [][C26_Prefix(manifest.conflicts, manifest'.conflicts)]_vars

\* a record made by a conflict copy outlives the artifact it references
C26_Witness ==
    \E k \in 1..Len(manifest.conflicts) :
        /\ manifest.conflicts[k].conflict_artifact_id # Undef
        /\ manifest.conflicts[k].artifact_id \in 1..uuid
        /\ ~HasArtifact(Store, manifest.conflicts[k].artifact_id)

\* ---------------------------------------------------------------- C29
C29_IsReindex == envSteps' # envSteps /\ result'.kind = "reindex"

\* the regular files of the artifacts directory that the manifest does not list
C29_Missing ==
    { f \in DOMAIN files :
        /\ isFile(files, f)
        /\ \A k \in 1..Len(manifest.artifacts) : manifest.artifacts[k].filename # f }

C29_Added ==
    { manifest'.artifacts[k].filename :
        k \in (Len(manifest.artifacts) + 1)..Len(manifest'.artifacts) }

\* C29: reindex only adds missing files: it appends one manifest entry for
\* each regular file of the artifacts directory whose filename the manifest
\* does not list, removes and alters no entry, and a second reindex in
\* succession adds 0 entries and leaves the manifest unchanged.
C29_ReindexOnlyAdds ==
    [][C29_IsReindex =>
         /\ C26_Prefix(manifest.artifacts, manifest'.artifacts)
         /\ Len(manifest'.artifacts) = Len(manifest.artifacts) + Cardinality(C29_Missing)
         /\ C29_Added = C29_Missing
         /\ result'.added = Cardinality(C29_Missing)
         /\ result'.total = Len(manifest'.artifacts)
         /\ manifest'.conflicts = manifest.conflicts
         /\ files' = files
         /\ (result.kind = "reindex" => result'.added = 0 /\ manifest' = manifest)]_vars

\* a reindex that found nothing to add, after one that added the dropped
\* files and passed over a directory
C29_Witness ==
    /\ result.kind = "reindex"
    /\ result.added = 0
    /\ \E k \in 1..Len(manifest.artifacts) : manifest.artifacts[k].filename \in DroppedFiles
    /\ \E f \in DOMAIN files : ~isFile(files, f)
    /\ envSteps = 2

\* ---------------------------------------------------------------- C27
C27_IsCleanup == cleanup'.count # cleanup.count

\* the archiveIssue call of this run for the issue of the entry succeeded
C27_Archived(entry) ==
    /\ entry.issue_id \in SeqRange(cleanup'.calls)
    /\ entry.issue_id \in cleanup'.archived

C27_IsMappedConflict(entry) ==
    /\ HasArtifact(Store, entry.artifact_id)
    /\ isConflictArtifact(getArtifact(Store, entry.artifact_id))
    /\ entry.issue_id # Undef

\* C27: the cleanup tool removes a mapping entry exactly when the artifact
\* is a conflict artifact with a mapped issue, the tool runs with --apply
\* and the archive call for that issue succeeded; every other entry is kept
\* as it is, and without --apply no archive call is made and the mapping
\* file is not written.
C27_CleanupRemovesArchivedOnly ==
    [][C27_IsCleanup =>
         LET before == readMapping(mappingFile)
             after == readMapping(mappingFile')
         IN  /\ \A k \in 1..Len(before) :
                   /\ ~HasEntry(after, before[k].artifact_id)
                         <=> ( /\ C27_IsMappedConflict(before[k])
                               /\ cleanup'.apply
                               /\ C27_Archived(before[k]) )
                   /\ HasEntry(after, before[k].artifact_id)
                         => EntryOf(after, before[k].artifact_id) = before[k]
             /\ \A k \in 1..Len(after) : HasEntry(before, after[k].artifact_id)
             /\ ~cleanup'.apply =>
                   /\ cleanup'.calls = <<>>
                   /\ ~cleanup'.wrote
                   /\ mappingFile' = mappingFile
                   /\ cleanup'.archived = cleanup.archived]_vars

\* a run with --apply in which one archive call failed and one succeeded
C27_Witness ==
    /\ cleanup.apply
    /\ cleanup.code = 2
    /\ cleanup.wrote
    /\ Len(cleanup.calls) = 2
    /\ cleanup.archived # {}
    /\ Len(readMapping(mappingFile)) = 1

\* a dry run over a mapped conflict artifact
C27_DryRunWitness ==
    /\ cleanup.count = 1
    /\ ~cleanup.apply
    /\ cleanup.code = 0
    /\ cleanupCandidates(Store, readMapping(mappingFile)) # <<>>

\* ---------------------------------------------------------------- C28
\* C28: reffy init is idempotent: whatever AGENTS.md held before, a second
\* init in succession leaves the file with exactly the content it has after
\* the first (upsertReffyBlock(upsertReffyBlock(c)) = upsertReffyBlock(c)).
C28_InitIdempotent ==
    Len(agents.written) >= 2 => agents.written[2] = agents.written[1]

\* from the second init on the file no longer changes
C28_StableAfterSecondInit ==
    Len(agents.written) >= 3 => agents.written[3] = agents.written[2]

\* ---------------------------------------------------------------- C30
C30_AllPresent ==
    /\ doctor.layout.refsDir
    /\ doctor.layout.artifactsDir
    /\ doctor.layout.rootAgents
    /\ doctor.layout.refsAgents
    /\ doctor.layout.manifestFile # "missing"
    /\ validateManifest(doctor.layout.manifestFile, Store, doctor.layout.artifactsDir)

\* C30: runDoctor separates required from optional checks: required_failed
\* is 0 exactly when .references, the artifacts directory, the root
\* AGENTS.md, .references/AGENTS.md and a valid manifest are all present;
\* whether openspec is available shows in optional_failed only.
C30_RequiredAndOptionalSeparate ==
    doctor.asked =>
        /\ doctor.report.summary.required_failed = 0 <=> C30_AllPresent
        /\ doctor.report.summary.required_failed \in 0..5
        /\ doctor.report.summary.required_total = 5
        /\ doctor.report.summary.optional_total = 1
        /\ doctor.report.summary.optional_failed = (IF doctor.openspec THEN 0 ELSE 1)
        /\ doctor.report.summary.required_failed
              = runDoctor(doctor.layout, Store, ~doctor.openspec).summary.required_failed

\* everything required is in place and openspec is not installed
C30_Witness ==
    /\ doctor.asked
    /\ C30_AllPresent
    /\ manifest.artifacts # <<>>
    /\ ~doctor.openspec
    /\ doctor.report.summary.required_failed = 0
    /\ doctor.report.summary.optional_failed = 1

\* openspec is installed and only the manifest is invalid
C30_InvalidManifestWitness ==
    /\ doctor.asked
    /\ doctor.openspec
    /\ doctor.layout = HealthyLayout
    /\ doctor.report.summary.required_failed = 1

\* ---------------------------------------------------------------- C35
C35_Counted(r) == r.created + r.updated + r.reused + r.skippedConflict + r.skipped

\* C35: the push counters partition the listed artifacts: each artifact the
\* loop has dealt with contributes to exactly one of created, updated,
\* reused, skipped_conflict and skipped, so that at the end their sum is the
\* number of listed artifacts, also when the upload fails after the create
\* or update succeeded.
C35_CountersPartition ==
    (CurKind = "push" /\ CurRun.pc = "items") => C35_Counted(CurRun) = CurRun.i - 1

\* what holds instead: the sum exceeds the number of artifacts by the
\* number of failures that came after a create, update or reuse was counted
C35_Overcount(r) ==
    Len(SelectSeq(r.log, LAMBDA item : item.failed /\ item.issue_id # Undef))

C35_CountersOverlapOnLateFailure ==
    (CurKind = "push" /\ CurRun.pc = "items")
        => C35_Counted(CurRun) = (CurRun.i - 1) + C35_Overcount(CurRun)

\* ---------------------------------------------------------------- C32
\* this step is one iteration of pull's loop over the entries
C32_IsPullItemStep ==
    /\ run.kind = "pull" /\ run.pc = "items" /\ run.i <= Len(run.items)
    /\ run'.kind = "pull" /\ run'.i = run.i + 1

\* the entry of this iteration belongs to an artifact that the push run
\* directly before this pull dealt with without error, its issue was not
\* edited since, and the iteration itself meets no error
C32_PulledRightAfterPush ==
    /\ C32_IsPullItemStep
    /\ run.afterPush = "clean"
    /\ run'.errors = run.errors
    /\ LET entry == EntryOf(run.mapping, run.items[run.i])
       IN  /\ entry.issue_id # Undef
           /\ IssueIndex(remote, entry.issue_id) # 0
           /\ remote[IssueIndex(remote, entry.issue_id)].updated_at <= entry.last_pushed_at
    /\ HasArtifact(Store, run.items[run.i])
    /\ ~isConflictArtifact(getArtifact(Store, run.items[run.i]))
    /\ FileExists(files, getArtifactPath(getArtifact(Store, run.items[run.i])))

C32_ContentKept ==
    LET localPath == getArtifactPath(getArtifact(Store, run.items[run.i]))
    IN  /\ FileExists(files', localPath)
        /\ files'[localPath].content = files[localPath].content
        /\ uuid' = uuid
        /\ manifest'.conflicts = manifest.conflicts

\* C32: round trip: a push run immediately followed by a pull run, with no
\* edit in between and no per-item error, leaves the stored content of
\* every pushed artifact unchanged, for text and non-text artifacts alike,
\* and creates no conflict copy.
C32_RoundTripKeepsContent ==
    [][C32_PulledRightAfterPush => C32_ContentKept]_vars

\* what holds instead: the round trip keeps the content of the text
\* artifacts whose content the push sent to the issue, and makes no
\* conflict copy for any artifact
C32_TextRoundTripKeepsContent ==
    [][C32_PulledRightAfterPush =>
         LET artifact == getArtifact(Store, run.items[run.i])
             entry == EntryOf(run.mapping, run.items[run.i])
         IN  /\ uuid' = uuid
             /\ manifest'.conflicts = manifest.conflicts
             /\ ( /\ IsTextMime(artifact.mime_type)
                  /\ <<entry.issue_id, files[getArtifactPath(artifact)].content>> \in synced
                  /\ entry.last_pushed_at = maxTs(entry.last_pushed_at, entry.last_pulled_at) )
                    => C32_ContentKept]_vars

\* ---------------------------------------------------------------- C33
\* the listing of this push succeeded and holds every issue that the
\* cancelled push before it created
C33_ListingHoldsLeftBehind(r) ==
    /\ ~r.listFailed
    /\ \A k \in 1..Len(r.leftBehind) : IssueIndex(r.listing, r.leftBehind[k].issue_id) # 0

\* the artifacts for which the cancelled push created an issue
C33_LeftBehindIds(r) == { r.leftBehind[k].artifact_id : k \in 1..Len(r.leftBehind) }

C33_Recreated(r) ==
    { r.log[k].artifact_id : k \in { j \in 1..Len(r.log) :
                                       /\ r.log[j].action = "create"
                                       /\ r.log[j].issue_id # Undef } }

\* C33: recovery after a cancelled push: a following push whose listing
\* succeeds and contains the issues which the cancelled push created makes
\* no second issue for those artifacts, whether or not the push label could
\* be resolved in the cancelled run.
C33_NoDuplicateAfterCancel ==
    (CurKind = "push" /\ C33_ListingHoldsLeftBehind(CurRun))
        => C33_Recreated(CurRun) \cap C33_LeftBehindIds(CurRun) = {}

\* what holds instead: when the issues left behind pass the label filter of
\* the listing, an artifact gets a second issue only if the issue made for
\* it before was claimed by an equal artifact earlier in the run, so that
\* the run ends with no more issues than artifacts
C33_NoDuplicateWhenLabelled ==
    ( /\ CurKind = "push"
      /\ C33_ListingHoldsLeftBehind(CurRun)
      /\ \A k \in 1..Len(CurRun.leftBehind) :
            IssueIndex(CurRun.issues, CurRun.leftBehind[k].issue_id) # 0 )
        => \A k \in 1..Len(CurRun.leftBehind) :
              CurRun.leftBehind[k].artifact_id \in C33_Recreated(CurRun)
                  => \E j \in 1..Len(CurRun.log) :
                        /\ CurRun.log[j].action = "reuse"
                        /\ CurRun.log[j].issue_id = CurRun.leftBehind[k].issue_id

\* a push after a cancelled push has dealt with an artifact whose issue the
\* cancelled push had created
C33_RecoveryHappens ==
    /\ CurKind = "push"
    /\ C33_ListingHoldsLeftBehind(CurRun)
    /\ \E k \in 1..Len(CurRun.log) :
          /\ CurRun.log[k].artifact_id \in C33_LeftBehindIds(CurRun)
          /\ CurRun.log[k].action = "reuse"

\* ------------------------------------------------------------------ C34
\* pull runs on a repository that was pushed before, with remote and local
\* edits between them and stops of the process in the middle of a run
NextPulls ==
    \/ UserEdit \/ RemoteEdit
    \/ PullStart \/ PullItem \/ PullFinish
    \/ Cancel

SpecPulls == InitStore /\ [][NextPulls]_vars

\* the iteration of pull deals with an artifact that a pull run wrote last
C34_PulledLast ==
    /\ C32_IsPullItemStep
    /\ run.items[run.i] \in pulledLast
    /\ HasArtifact(Store, run.items[run.i])

\* the iteration leaves no conflict copy and no Conflict Record behind
C34_NoCopyNoRecord ==
    /\ uuid' = uuid
    /\ Len(manifest'.artifacts) = Len(manifest.artifacts)
    /\ manifest'.conflicts = manifest.conflicts

\* C34: when a pull run overwrote or imported an artifact and nobody
\* edited it locally afterwards, the next pull run creates no conflict
\* copy and no Conflict Record for it
C34_NoFalseConflict ==
    [][C34_PulledLast => C34_NoCopyNoRecord]_vars

\* what holds instead: the stamp that the overwrite or the import of a
\* pull iteration leaves on the artifact is never later than the
\* last_pulled_at of the entry that the same run keeps in memory, so
\* there is no false conflict once that run has written its mapping
C34_StampNotLaterThanEntry ==
    [][(/\ run.kind = "pull" /\ run'.kind = "pull"
        /\ pulledLast' # pulledLast)
       => \A id \in pulledLast' \ pulledLast :
            /\ HasArtifact([manifest |-> manifest', files |-> files', uuid |-> uuid'], id)
            /\ EntryOf(run'.mapping, id).last_pulled_at # Undef
            /\ getArtifact([manifest |-> manifest', files |-> files', uuid |-> uuid'], id).updated_at
                   <= EntryOf(run'.mapping, id).last_pulled_at]_vars

\* the entry on file says that a pull run dealt with the artifact at or
\* after the artifact's last stamp
C34_EntryOnFile ==
    /\ C34_PulledLast
    /\ EntryOf(mappingFile.artifacts, run.items[run.i]).last_pulled_at # Undef
    /\ getArtifact(Store, run.items[run.i]).updated_at
           <= EntryOf(mappingFile.artifacts, run.items[run.i]).last_pulled_at

C34_NoFalseConflictOnceWritten ==
    [][C34_EntryOnFile => C34_NoCopyNoRecord]_vars

\* a pull run meets an artifact that a pull run overwrote before, whose
\* issue's description changed in between
C34_SecondPullAfterRemoteEdit ==
    /\ run.kind = "pull" /\ run.pc = "items" /\ run.i <= Len(run.items)
    /\ run.items[run.i] \in pulledLast
    /\ HasArtifact(Store, run.items[run.i])
    /\ LET entry == EntryOf(run.mapping, run.items[run.i])
           a == getArtifact(Store, run.items[run.i])
       IN  /\ entry.issue_id # Undef
           /\ IssueIndex(remote, entry.issue_id) # 0
           /\ FileExists(files, getArtifactPath(a))
           /\ remote[IssueIndex(remote, entry.issue_id)].description
                  # files[getArtifactPath(a)].content

\* ------------------------------------------------------------------ C31
\* the nodes of the diagram made from a line of the document
C31_NodesOf(line) ==
    { k \in 1..Len(diagram.out.nodes) : diagram.out.nodes[k].line = line }

\* the edges of the diagram that end in a node
C31_EdgesInto(id) ==
    { k \in 1..Len(diagram.out.edges) : diagram.out.edges[k][2] = id }

\* the requirement headings before a line
C31_RequirementsBefore(line) ==
    { k \in 1..(line - 1) : diagram.specText[k] = "R" }

C31_Max(S) == CHOOSE m \in S : \A k \in S : k <= m

\* the scenario heading has one node, with one edge, which comes from the
\* node of the nearest requirement heading before it
C31_ScenarioLinked(line) ==
    /\ Cardinality(C31_NodesOf(line)) = 1
    /\ LET node == diagram.out.nodes[CHOOSE k \in C31_NodesOf(line) : TRUE]
           nearest == C31_Max(C31_RequirementsBefore(line))
       IN  /\ Cardinality(C31_EdgesInto(node.id)) = 1
           /\ \E r \in C31_NodesOf(nearest) :
                 diagram.out.edges[CHOOSE k \in C31_EdgesInto(node.id) : TRUE][1]
                     = diagram.out.nodes[r].id

C31_RequirementsAreNodes ==
    \A line \in 1..Len(diagram.specText) :
        diagram.specText[line] = "R" => Cardinality(C31_NodesOf(line)) = 1

\* C31: in the diagram derived from a spec document every requirement
\* heading is one node and every scenario heading after a requirement
\* heading is one node with exactly one edge, from the nearest requirement
\* heading before it, whatever the order of the headings; a document
\* without requirement heading fails
C31_EveryHeadingBecomesNode ==
    diagram.asked =>
        IF \A line \in 1..Len(diagram.specText) : diagram.specText[line] # "R"
        THEN diagram.out.failed
        ELSE /\ ~diagram.out.failed
             /\ C31_RequirementsAreNodes
             /\ \A line \in 1..Len(diagram.specText) :
                    (diagram.specText[line] = "S" /\ C31_RequirementsBefore(line) # {})
                        => C31_ScenarioLinked(line)

\* no scenario heading stands before the first requirement heading
C31_RequirementFirst ==
    \A line \in 1..Len(diagram.specText) :
        diagram.specText[line] = "S" => C31_RequirementsBefore(line) # {}

\* what holds instead: the same, for the documents in which no scenario
\* heading stands before the first requirement heading; and no line has
\* more than one node, no node more than one edge
C31_HoldsWhenRequirementFirst ==
    /\ (diagram.asked /\ C31_RequirementFirst
          /\ \E line \in 1..Len(diagram.specText) : diagram.specText[line] = "R")
        => /\ ~diagram.out.failed
           /\ C31_RequirementsAreNodes
           /\ \A line \in 1..Len(diagram.specText) :
                  diagram.specText[line] = "S" => C31_ScenarioLinked(line)
    /\ diagram.asked =>
          /\ \A line \in 1..Len(diagram.specText) : Cardinality(C31_NodesOf(line)) <= 1
          /\ \A k \in 1..Len(diagram.out.nodes) :
                Cardinality(C31_EdgesInto(diagram.out.nodes[k].id)) <= 1
          /\ (diagram.out.failed <=>
                 \A line \in 1..Len(diagram.specText) : diagram.specText[line] # "R")

\* a document with two requirements and a scenario under each was rendered
C31_TwoRequirementsRendered ==
    /\ diagram.asked
    /\ diagram.specText = <<"R", "S", "R", "S">>
    /\ Len(diagram.out.nodes) = 4
    /\ Len(diagram.out.edges) = 2

\* ------------------------------------------------------------------ C39
\* every path that was reported and not yet passed to onChange is among
\* the collected paths and a timer is pending for it; onChange never got
\* an empty set nor a path for which no event was outstanding
C39_Collected ==
    /\ watcher.owed \subseteq watcher.paths
    /\ watcher.owed # {} => watcher.timer = "pending"
    /\ watcher.spurious = 0
    /\ watcher.empty = 0

\* an event restarts the quiet period; onChange is called only when the
\* quiet period has run down, with exactly the paths outstanding
C39_Step ==
    /\ watcher'.events > watcher.events
          => watcher'.timer = "pending" /\ watcher'.left = watcher.debounceMs
    /\ watcher'.calls # watcher.calls
          => /\ watcher.timer = "pending" /\ watcher.left = 0
             /\ watcher'.calls = Append(watcher.calls, watcher.owed)
             /\ watcher.owed # {}
             /\ watcher'.owed = {}

\* C39: while the watcher runs, every path reported by an event is passed
\* to onChange in exactly one later call; each event restarts the quiet
\* period and onChange is called once it has run down; onChange never gets
\* an empty set, and no path again without a new event for it
C39_DebounceLosesNothing ==
    /\ []C39_Collected
    /\ [][C39_Step]_vars
    /\ \A filePath \in WatchedPaths :
          (filePath \in watcher.owed) ~> (filePath \notin watcher.owed)

\* two events within one quiet period were passed on in one call, a later
\* event for one of the paths in a second call
C39_Witness ==
    /\ watcher.debounceMs > 0
    /\ watcher.calls = << {"a.md", "b.md"}, {"a.md"} >>
    /\ watcher.owed = {}

\* ------------------------------------------------------------------ C40
\* a stop() has completed and start() was not called since
C40_Stopped == watcher.stops > 0 /\ watcher.watcher = "none"

\* C40: once stop() has completed no timer is armed and onChange is not
\* called any more, also when file events arrive while stop() waits for
\* the underlying watcher to close; paths collected before stop() are not
\* passed to onChange after it
C40_StopIsFinal ==
    /\ C40_Stopped => watcher.timer # "pending"
    /\ watcher.lateCalls = 0
    /\ watcher.stale = {}

\* what holds instead: when no event arrives while stop() waits for
\* close(), no timer is armed and onChange is not called after stop(); when
\* moreover the watcher is not started again, nothing collected before
\* stop() is ever passed on
C40_FinalWithoutLateEvents ==
    /\ watcher.lateEvents = 0
          => /\ C40_Stopped => watcher.timer # "pending"
             /\ watcher.lateCalls = 0
    /\ (watcher.lateEvents = 0 /\ watcher.starts <= 1) => watcher.stale = {}

\* a stop() that found a timer armed and paths collected has completed
C40_StoppedWithPaths ==
    /\ C40_Stopped
    /\ watcher.starts = 1
    /\ watcher.lateEvents = 0
    /\ watcher.paths # {}
    /\ watcher.timer = "null"

\* without any event during close(): a path collected before stop() was
\* passed to onChange after the watcher was started again
C40_HeldPathDeliveredAfterRestart ==
    /\ watcher.lateEvents = 0
    /\ watcher.stale # {}

\* ------------------------------------------------------------------ C36
\* nothing is pending: the constructor's work and every createArtifact
\* call have finished
C36_Quiescent == startup.ctor = "done" /\ startup.create = "idle"

C36_Listed(id) ==
    \E k \in 1..Len(startup.st.manifest.artifacts) :
        startup.st.manifest.artifacts[k].id = id

\* C36: on a repository without manifest file, an artifact created right
\* after the construction of the store is listed in the manifest once all
\* pending operations have finished
C36_CreatedIsListed ==
    (C36_Quiescent /\ ~startup.hadManifest)
        => \A id \in startup.returned : C36_Listed(id)

\* what holds instead: the artifacts are listed when the repository had a
\* manifest file, or when the catch handler has not written (yet)
C36_ListedWithManifest ==
    (startup.create = "idle" /\ (startup.hadManifest \/ ~startup.emptyWritten))
        => \A id \in startup.returned : C36_Listed(id)

\* the order in which nothing is lost: the empty manifest was written
\* before the first createArtifact read, and both artifacts are listed
C36_BothListedAfterEmptyWrite ==
    /\ C36_Quiescent
    /\ ~startup.hadManifest
    /\ startup.emptyWritten
    /\ Cardinality(startup.returned) = 2
    /\ \A id \in startup.returned : C36_Listed(id)

\* ------------------------------------------------------------------ C38
\* an object entry of the manifest lacks the field
C38_Lacks(field) ==
    \E k \in 1..Len(validation.raw.artifacts) :
        /\ validation.raw.artifacts[k].isObject
        /\ ~validation.raw.artifacts[k][field].present

\* C38: for every manifest whose root is an object validateManifest
\* returns a result and throws nothing; with an entry that lacks filename
\* or id the result has ok = false and errors; ok is true exactly when
\* there are no errors
C38_ViolationsAreResults ==
    (validation.asked /\ validation.root = "object")
        => /\ ~validation.result.threw
           /\ validation.result.ok <=> validation.result.errors = <<>>
           /\ (C38_Lacks("filename") \/ C38_Lacks("id"))
                 => ~validation.result.ok /\ validation.result.errors # <<>>

\* what holds instead: the same for the manifests in which every object
\* entry has a filename; validateManifest throws exactly when an object
\* entry has none
C38_ResultsWhenFilenamesPresent ==
    /\ (validation.asked /\ ~C38_Lacks("filename"))
          => /\ ~validation.result.threw
             /\ validation.result.ok <=> validation.result.errors = <<>>
             /\ C38_Lacks("id") => ~validation.result.ok
             /\ validation.root # "object" => ~validation.result.ok
    /\ validation.asked
          => (validation.result.threw <=>
                 (validation.root = "object" /\ C38_Lacks("filename")))

\* a manifest whose only flaw is a size that differs is valid, with a warning
C38_SizeMismatchIsWarning ==
    /\ validation.asked
    /\ validation.result.ok
    /\ validation.result.warnings = <<"size_differs">>

\* an entry without id gives a result with errors
C38_MissingIdIsError ==
    /\ validation.asked
    /\ C38_Lacks("id")
    /\ ~validation.result.threw
    /\ ~validation.result.ok
    /\ "id" \in { validation.result.errors[k] : k \in 1..Len(validation.result.errors) }

\* ------------------------------------------------------------------ C37
\* C37: after any sequence of store operations from an empty manifest no
\* two artifacts of the manifest have the same filename
C37_FilenamesUnique ==
    \A i \in 1..Len(manifest.artifacts), j \in 1..Len(manifest.artifacts) :
        i # j => manifest.artifacts[i].filename # manifest.artifacts[j].filename

\* every artifact of the manifest has its own file
C37_EveryArtifactHasFile ==
    \A i \in 1..Len(manifest.artifacts) :
        FileExists(files, manifest.artifacts[i].filename)

\* what holds instead: the filenames differ as long as every artifact was
\* created with content, so that uniqueFilename finds its file
C37_UniqueWhenFilesWritten ==
    C37_FilenamesUnique /\ C37_EveryArtifactHasFile

\* two artifacts of the same name, both with content, have different files
C37_SecondNameCounted ==
    /\ Len(manifest.artifacts) = 2
    /\ manifest.artifacts[1].name = manifest.artifacts[2].name
    /\ manifest.artifacts[1].filename # manifest.artifacts[2].filename
    /\ C37_EveryArtifactHasFile

====
